---- MODULE Spec2Model ----
(***************************************************************************)
(* A model of the multidim library (multidim.hpp 0.9.0): the geometry      *)
(* functions bounds / scalarSize, FlatView with its FlatViewIterator, and  *)
(* BoxedView with its BoxedViewIterator and BoxedViewScalarProxy.          *)
(*                                                                         *)
(* The underlying range is a vector<vector<vector<int>>>: a sequence of    *)
(* sequences of sequences of integers, possibly jagged.  A raw iterator is *)
(* a record [c |-> path of the container it walks, i |-> offset in it];    *)
(* offsets and path components count from 0 as in the code.                *)
(***************************************************************************)
EXTENDS Integers, Sequences, FiniteSets, TLC

\* Nesting depth of the range type under test (vector<vector<vector<int>>>).
Dim == 3

\* Largest number of elements (subranges and leaves together) of a range the
\* FlatView and geometry specifications enumerate.
MaxNodes == 6

\* Largest |n| of an iterator += n the specifications try.
MaxStep == 2

\* The values client code assigns through a view.
WriteValues == {7}

\* Largest number of elements of a range the BoxedView specification enumerates.
BvMaxNodes == 4

\* Largest number of elements of each of the two ranges whose FlatViews the
\* comparison specification compares.
CmpMaxNodes == 4

\* The values of the leaves of those ranges.
CmpValues == {1, 2}

\* Largest number of elements of a range the scalar trait specification
\* enumerates.
ScalarsMaxNodes == 5

\* Largest apparent bound of a dimension the BoxedView specification tries.
MaxBound == 2

\* The default values of a BoxedView.
DefaultValues == {42}

VARIABLES
    R,          \* the underlying nested range (caller-owned storage)
    fit,        \* FlatView walk: the FlatViewIterator of the client loop
    phase,      \* FlatView walk: "fwd", "bwd", "done" ("off" in other specs)
    origin,     \* FlatView walk: where the walk started, "begin" or "rend"
    trail,      \* FlatView walk: the iterators met going forward, in order
    visited,    \* FlatView walk: results of *it going forward
    rvisited,   \* FlatView walk: results of *it going backward
    pos,        \* FlatView: the logical position of fit, from -1 (one before
                \* the first) to the number of leaves (one past the last)
    bv,         \* the view: a BoxedView (begin_, end_, defaultValue_, bounds_),
                \* in SpecStep a FlatView (begin_, end_, cachedSize_); in
                \* SpecScalars the scalar trait of the client's calls
    cursor,     \* BoxedView: what the client holds: an iterator of some level
                \* with the coordinates that led to it, or a scalar proxy
    lastOp      \* the last operation of the client and its outcome

vars == <<R, fit, phase, origin, trail, visited, rvisited, pos, bv, cursor, lastOp>>

-----------------------------------------------------------------------------
(* The nested ranges the specifications start from *)

RECURSIVE Count(_, _)
\* Number of elements at all depths of a range x of dimensionality d.
Count(x, d) ==
    IF d = 0 THEN 0
    ELSE LET RECURSIVE Sum(_)
             Sum(k) == IF k = 0 THEN 0 ELSE 1 + Count(x[k], d - 1) + Sum(k - 1)
         IN  Sum(Len(x))

RECURSIVE Shapes(_, _)
\* All ranges of dimensionality d with at most n elements; leaves are 0.
Shapes(d, n) ==
    IF n = 0 THEN {<<>>}
    ELSE {<<>>} \cup
         UNION { { <<h>> \o t : t \in Shapes(d, n - 1 - Count(h, d - 1)) } :
                 h \in IF d = 1 THEN {0} ELSE Shapes(d - 1, n - 1) }

RECURSIVE Label(_, _, _)
\* Gives every leaf a distinct value: the digits of its 1-based coordinates.
Label(x, d, code) ==
    IF d = 0 THEN code
    ELSE [k \in 1..Len(x) |-> Label(x[k], d - 1, 10 * code + k)]

Ranges(n) == { Label(s, Dim, 0) : s \in Shapes(Dim, n) }

RECURSIVE Valued(_, _, _)
\* All ranges of the shape x (of dimensionality d) with leaves in `values`.
Valued(x, d, values) ==
    IF d = 0 THEN values
    ELSE LET RECURSIVE Prod(_)
             Prod(k) == IF k > Len(x) THEN {<<>>}
                        ELSE { <<h>> \o t : h \in Valued(x[k], d - 1, values),
                                            t \in Prod(k + 1) }
         IN  Prod(1)

\* All ranges of dimensionality d with at most n elements and leaves in `values`.
ValuedRanges(d, n, values) == UNION { Valued(s, d, values) : s \in Shapes(d, n) }

-----------------------------------------------------------------------------
(* Raw iterators of the underlying containers *)

RECURSIVE At(_, _)
\* The container reached from x by the path p.
At(x, p) == IF p = <<>> THEN x ELSE At(x[Head(p) + 1], Tail(p))

\* A value-initialised raw iterator (nullptr).
NullRaw == [c |-> <<-1>>, i |-> 0]

\* begin(*it) and end(*it) of the subrange a raw iterator points to.  An empty
\* std::vector that never held an element has no storage: its begin() and
\* end() hold the null pointer, whichever vector it is.
RawBeginOf(x, it) ==
    IF At(x, Append(it.c, it.i)) = <<>> THEN NullRaw
    ELSE [c |-> Append(it.c, it.i), i |-> 0]
RawEndOf(x, it) ==
    IF At(x, Append(it.c, it.i)) = <<>> THEN NullRaw
    ELSE [c |-> Append(it.c, it.i), i |-> Len(At(x, Append(it.c, it.i)))]

\* ++it and --it on a raw iterator.
RawNext(it) == [it EXCEPT !.i = @ + 1]
RawPrev(it) == [it EXCEPT !.i = @ - 1]

\* The value stored at a raw iterator pointing to a scalar.
ValueAt(x, it) == At(x, it.c)[it.i + 1]

-----------------------------------------------------------------------------
(* scalarSize and bounds *)

RECURSIVE scalarSize(_, _)
\* scalarSize that counts the elements of the range itself, not its leaves.
scalarSizeTopLevel(x, d) == IF d = 0 THEN 1 ELSE Len(x)

\* scalarSize of a value x of dimensionality d: 1 for a scalar, otherwise the
\* loop `for (it = first; it != last; ++it) result += scalarSize(*it)`.
scalarSize(x, d) ==
    IF d = 0 THEN 1
    ELSE LET RECURSIVE Loop(_, _)
             Loop(k, result) ==
                 IF k > Len(x) THEN result
                 ELSE Loop(k + 1, result + scalarSize(x[k], d - 1))
         IN  Loop(1, 0)

\* The exception of bounds.
ShapeMismatch == [error |-> "bounds : encountered Container with strange dimensionality"]

RECURSIVE bounds(_, _)
\* bounds that takes the bounds of the first subcontainer and never enlarges
\* them with those of the others.
boundsOfFirstChild(x, d) ==
    IF d = 0 THEN <<>>
    ELSE IF d = 1 THEN <<Len(x)>>
    ELSE IF Len(x) = 0 THEN [j \in 1..d |-> 0]
    ELSE <<Len(x)>> \o bounds(x[1], d - 1)

\* bounds whose loop keeps the smaller of the two bounds where the code keeps
\* the larger.
boundsKeepsSmaller(x, d) ==
    IF d = 0 THEN <<>>
    ELSE IF d = 1 THEN <<Len(x)>>
    ELSE LET RECURSIVE Loop(_, _)
             Loop(k, containerBounds) ==
                 IF k > Len(x) THEN containerBounds
                 ELSE LET subContainerBounds == bounds(x[k], d - 1)
                      IN  IF k = 1
                          THEN Loop(k + 1,
                                   [j \in 1..d |-> IF j = 1 THEN containerBounds[1]
                                                   ELSE subContainerBounds[j - 1]])
                          ELSE Loop(k + 1,
                                   [j \in 1..d |->
                                       IF j > 1 /\ containerBounds[j] > subContainerBounds[j - 1]
                                       THEN subContainerBounds[j - 1]
                                       ELSE containerBounds[j]])
         IN  Loop(1, [j \in 1..d |-> IF j = 1 THEN Len(x) ELSE 0])

\* bounds of a value x of dimensionality d, when no subcontainer makes it
\* throw.  For a multilevel range: containerBounds[0] is the size of the
\* range, then the loop over the subcontainers copies the bounds of the first
\* one and enlarges them with those of the others.
bounds(x, d) ==
    IF d = 0 THEN <<>>
    ELSE IF d = 1 THEN <<Len(x)>>
    ELSE LET RECURSIVE Loop(_, _)
             Loop(k, containerBounds) ==
                 IF k > Len(x) THEN containerBounds
                 ELSE LET subContainerBounds == bounds(x[k], d - 1)
                      IN  IF k = 1
                          THEN Loop(k + 1,
                                   [j \in 1..d |-> IF j = 1 THEN containerBounds[1]
                                                   ELSE subContainerBounds[j - 1]])
                          ELSE Loop(k + 1,
                                   [j \in 1..d |->
                                       IF j > 1 /\ containerBounds[j] < subContainerBounds[j - 1]
                                       THEN subContainerBounds[j - 1]
                                       ELSE containerBounds[j]])
         IN  Loop(1, [j \in 1..d |-> IF j = 1 THEN Len(x) ELSE 0])

RECURSIVE boundsThrows(_, _)
\* bounds throws: the bounds of some subcontainer, at any depth, do not have
\* rangeDimensionality - 1 entries.
boundsThrows(x, d) ==
    /\ d >= 2
    /\ \E k \in 1..Len(x) :
           \/ boundsThrows(x[k], d - 1)
           \/ Len(bounds(x[k], d - 1)) # d - 1

-----------------------------------------------------------------------------
(* Scalar classification *)
(* A type is known here by its height: 0 for a type that is not a range,   *)
(* h > 0 for a range whose elements have height h - 1.  The library asks a *)
(* trait about a type in two forms: the bare type T (the argument type of  *)
(* bounds and scalarSize, the value_type of an iterator) and the reference *)
(* type T& or T const& (the reference of an iterator, the argument of      *)
(* dimensionality).  A trait is the pair of the sets of heights it answers *)
(* isCustomScalar = true for, one set per form.  The traits of the library *)
(* decay T first, so both sets are equal; a trait written without decay    *)
(* tells the two forms apart.                                              *)

Forms == {"bare", "ref"}

\* The traits tried: those that leave the type of R itself a range (what a
\* trait does to the type of an argument shows on the subranges of R).
Traits == [bare : SUBSET (1..(Dim - 1)), ref : SUBSET (1..(Dim - 1))]

\* struct NoCustomScalars: isCustomScalar = false for any T.
NoCustomScalars == [bare |-> {}, ref |-> {}]

\* A trait whose answer does not depend on the form, as StringsAsScalars.
Decayed(CustomScalarTrait) == CustomScalarTrait.bare = CustomScalarTrait.ref

\* IsRange<T>::value: begin and end exist on T&, whatever the form of T.
IsRange(h) == h > 0

\* IsScalar whose trait is never consulted.
IsScalarIgnoresTrait(CustomScalarTrait, h, form) == ~IsRange(h)

\* IsScalar<CustomScalarTrait, T>::value
IsScalar(CustomScalarTrait, h, form) ==
    ~IsRange(h) \/ h \in CustomScalarTrait[form]

RECURSIVE Dimensionality(_, _, _)
\* Dimensionality that counts the level of a scalar too.
DimensionalityCountsScalar(CustomScalarTrait, h, form) ==
    IF IsScalar(CustomScalarTrait, h, form) THEN 1
    ELSE 1 + Dimensionality(CustomScalarTrait, h - 1, "ref")

\* Dimensionality<CustomScalarTrait, T>::value: 0 for a scalar T, otherwise
\* 1 + the value for the reference type of T's iterator.
Dimensionality(CustomScalarTrait, h, form) ==
    IF IsScalar(CustomScalarTrait, h, form) THEN 0
    ELSE 1 + Dimensionality(CustomScalarTrait, h - 1, "ref")

\* DimensionalityRange<CustomScalarTrait, Iterator>::value, for an iterator
\* whose reference type has height h.
DimensionalityRange(CustomScalarTrait, h) ==
    1 + Dimensionality(CustomScalarTrait, h, "ref")

\* dimensionality(T const& arg)
dimensionality(CustomScalarTrait, h) == Dimensionality(CustomScalarTrait, h, "ref")

RECURSIVE scalarSizeWith(_, _, _)
\* scalarSize<CustomScalarTrait>(argument) for an argument x of height h:
\* the version for scalars, for monolevel ranges or for multilevel ranges.
scalarSizeWith(CustomScalarTrait, x, h) ==
    IF IsScalar(CustomScalarTrait, h, "bare") THEN 1
    ELSE IF IsScalar(CustomScalarTrait, h - 1, "bare") THEN Len(x)
    ELSE LET RECURSIVE Loop(_, _)
             Loop(k, result) ==
                 IF k > Len(x) THEN result
                 ELSE Loop(k + 1, result + scalarSizeWith(CustomScalarTrait, x[k], h - 1))
         IN  Loop(1, 0)

RECURSIVE boundsWith(_, _, _)
\* bounds that throws only when a subcontainer has too few bounds.
boundsWithOnlyShorter(CustomScalarTrait, x, h) ==
    IF IsScalar(CustomScalarTrait, h, "bare") THEN [bounds |-> <<>>]
    ELSE IF IsScalar(CustomScalarTrait, h - 1, "bare") THEN [bounds |-> <<Len(x)>>]
    ELSE LET rangeDimensionality == DimensionalityRange(CustomScalarTrait, h - 1)
             RECURSIVE Loop(_, _)
             Loop(k, containerBounds) ==
                 IF k > Len(x) THEN [bounds |-> containerBounds]
                 ELSE LET subContainerBounds == boundsWith(CustomScalarTrait, x[k], h - 1)
                      IN  IF subContainerBounds = ShapeMismatch THEN ShapeMismatch
                          ELSE IF Len(subContainerBounds.bounds) < rangeDimensionality - 1
                          THEN ShapeMismatch
                          ELSE Loop(k + 1,
                                   [j \in 1..rangeDimensionality |->
                                       IF j = 1 THEN containerBounds[1]
                                       ELSE IF k = 1 \/ containerBounds[j] < subContainerBounds.bounds[j - 1]
                                       THEN subContainerBounds.bounds[j - 1]
                                       ELSE containerBounds[j]])
         IN  Loop(1, [j \in 1..rangeDimensionality |-> IF j = 1 THEN Len(x) ELSE 0])

\* bounds<CustomScalarTrait>(argument) for an argument x of height h: the
\* record [bounds |-> ...] of the vector returned, or ShapeMismatch.  The
\* version for scalars returns the empty vector, the version for monolevel
\* ranges the size; the version for multilevel ranges takes
\* rangeDimensionality from the reference type of the iterator, and throws as
\* soon as the bounds of a subcontainer do not have rangeDimensionality - 1
\* entries.
boundsWith(CustomScalarTrait, x, h) ==
    IF IsScalar(CustomScalarTrait, h, "bare") THEN [bounds |-> <<>>]
    ELSE IF IsScalar(CustomScalarTrait, h - 1, "bare") THEN [bounds |-> <<Len(x)>>]
    ELSE LET rangeDimensionality == DimensionalityRange(CustomScalarTrait, h - 1)
             RECURSIVE Loop(_, _)
             Loop(k, containerBounds) ==
                 IF k > Len(x) THEN [bounds |-> containerBounds]
                 ELSE LET subContainerBounds == boundsWith(CustomScalarTrait, x[k], h - 1)
                      IN  IF subContainerBounds = ShapeMismatch THEN ShapeMismatch
                          ELSE IF Len(subContainerBounds.bounds) # rangeDimensionality - 1
                          THEN ShapeMismatch
                          ELSE Loop(k + 1,
                                   [j \in 1..rangeDimensionality |->
                                       IF j = 1 THEN containerBounds[1]
                                       ELSE IF k = 1 \/ containerBounds[j] < subContainerBounds.bounds[j - 1]
                                       THEN subContainerBounds.bounds[j - 1]
                                       ELSE containerBounds[j]])
         IN  Loop(1, [j \in 1..rangeDimensionality |-> IF j = 1 THEN Len(x) ELSE 0])

-----------------------------------------------------------------------------
(* FlatViewIterator *)
(* An iterator over a range of dimensionality d > 1 is the record          *)
(* [child_, begin_, current_, end_]; over a range of scalars (d = 1) it is *)
(* [valid_, begin_, current_, end_].                                       *)

RECURSIVE FvDefault(_)
\* The default constructors.
FvDefault(d) ==
    IF d = 1
    THEN [valid_ |-> FALSE, begin_ |-> NullRaw, current_ |-> NullRaw, end_ |-> NullRaw]
    ELSE [child_ |-> FvDefault(d - 1),
          begin_ |-> NullRaw, current_ |-> NullRaw, end_ |-> NullRaw]

RECURSIVE FvValid(_, _)
\* valid()
FvValid(it, d) ==
    IF d = 1 THEN it.valid_
    ELSE it.current_.i < it.end_.i /\ FvValid(it.child_, d - 1)

RECURSIVE FvIncrement(_, _, _)
RECURSIVE FvSeekForward(_, _, _)
RECURSIVE FvDecrement(_, _, _)
RECURSIVE FvSeekBackward(_, _, _)

\* A Forward constructor that does not call increment(): it stays at the raw
\* start without seeking a leaf.
FvMakeBeginNoSeek(x, first, last, d) ==
    IF d = 1
    THEN [valid_ |-> FALSE, begin_ |-> first, current_ |-> first, end_ |-> last]
    ELSE [child_ |-> FvDefault(d - 1),
          begin_ |-> first, current_ |-> first, end_ |-> last]

\* The Forward constructor behind makeBegin: it seeks the first valid leaf.
FvMakeBegin(x, first, last, d) ==
    FvIncrement(x,
        IF d = 1
        THEN [valid_ |-> FALSE, begin_ |-> first, current_ |-> first, end_ |-> last]
        ELSE [child_ |-> FvDefault(d - 1),
              begin_ |-> first, current_ |-> first, end_ |-> last],
        d)

\* The Backward constructor behind makeEnd: the raw limit, no seek.
FvMakeEnd(x, first, last, d) ==
    IF d = 1
    THEN [valid_ |-> FALSE, begin_ |-> first, current_ |-> last, end_ |-> last]
    ELSE [child_ |-> FvDefault(d - 1),
          begin_ |-> first, current_ |-> last, end_ |-> last]

\* increment() without its `if (child_.valid()) break;` test: the loop stops
\* at the first subrange, empty or not.
FvSeekForwardAnyChild(x, it, d) ==
    IF it.current_ = it.end_ THEN it
    ELSE [it EXCEPT !.child_ = FvMakeBegin(x, RawBeginOf(x, it.current_),
                                           RawEndOf(x, it.current_), d - 1)]

\* The while(1) loop of increment(): build a child at current_, move on while
\* the child is not valid, stop at end_.
FvSeekForward(x, it, d) ==
    IF it.current_ = it.end_ THEN it
    ELSE LET ch == FvMakeBegin(x, RawBeginOf(x, it.current_),
                               RawEndOf(x, it.current_), d - 1)
         IN  IF FvValid(ch, d - 1)
             THEN [it EXCEPT !.child_ = ch]
             ELSE FvSeekForward(x,
                      [it EXCEPT !.child_ = ch, !.current_ = RawNext(@)], d)

\* increment() whose leaf version does not compare current_ with end_: the
\* iterator stays valid wherever the step takes it.
FvIncrementStaysValid(x, it, d) ==
    IF d = 1
    THEN LET cur == IF it.valid_ THEN RawNext(it.current_) ELSE it.current_
         IN  [it EXCEPT !.current_ = cur, !.valid_ = TRUE]
    ELSE IF FvValid(it, d)
         THEN LET ch == FvIncrement(x, it.child_, d - 1)
              IN  IF FvValid(ch, d - 1)
                  THEN [it EXCEPT !.child_ = ch]
                  ELSE FvSeekForward(x,
                           [it EXCEPT !.child_ = ch, !.current_ = RawNext(@)], d)
         ELSE FvSeekForward(x, it, d)

\* increment() that leaves an iterator that is not valid where it is.
FvIncrementOnlyWhenValid(x, it, d) ==
    IF ~FvValid(it, d) THEN it
    ELSE IF d = 1
    THEN LET cur == RawNext(it.current_)
         IN  [it EXCEPT !.current_ = cur, !.valid_ = ~(cur = it.end_)]
    ELSE LET ch == FvIncrement(x, it.child_, d - 1)
         IN  IF FvValid(ch, d - 1)
             THEN [it EXCEPT !.child_ = ch]
             ELSE FvSeekForward(x,
                      [it EXCEPT !.child_ = ch, !.current_ = RawNext(@)], d)

\* increment()
FvIncrement(x, it, d) ==
    IF d = 1
    THEN LET cur == IF it.valid_ THEN RawNext(it.current_) ELSE it.current_
         IN  [it EXCEPT !.current_ = cur, !.valid_ = ~(cur = it.end_)]
    ELSE IF FvValid(it, d)
         THEN LET ch == FvIncrement(x, it.child_, d - 1)
              IN  IF FvValid(ch, d - 1)
                  THEN [it EXCEPT !.child_ = ch]
                  ELSE FvSeekForward(x,
                           [it EXCEPT !.child_ = ch, !.current_ = RawNext(@)], d)
         ELSE FvSeekForward(x, it, d)

\* decrement() without its `if (child_.valid()) break;` test: the loop stops
\* at the first subrange it steps back to, empty or not.
FvSeekBackwardAnyChild(x, it, d) ==
    IF it.current_ = it.begin_ THEN it
    ELSE LET cur == RawPrev(it.current_)
         IN  [it EXCEPT !.current_ = cur,
                        !.child_ = FvDecrement(x,
                            FvMakeEnd(x, RawBeginOf(x, cur), RawEndOf(x, cur), d - 1),
                            d - 1)]

\* The while(1) loop of decrement(): step back, build a child at its end and
\* decrement it, stop on a valid child or at begin_.
FvSeekBackward(x, it, d) ==
    IF it.current_ = it.begin_ THEN it
    ELSE LET cur == RawPrev(it.current_)
             ch  == FvDecrement(x,
                        FvMakeEnd(x, RawBeginOf(x, cur), RawEndOf(x, cur), d - 1),
                        d - 1)
         IN  IF FvValid(ch, d - 1)
             THEN [it EXCEPT !.child_ = ch, !.current_ = cur]
             ELSE FvSeekBackward(x, [it EXCEPT !.child_ = ch, !.current_ = cur], d)

\* decrement()
FvDecrement(x, it, d) ==
    IF d = 1
    THEN IF it.current_ = it.begin_
         THEN [it EXCEPT !.valid_ = FALSE]
         ELSE [it EXCEPT !.current_ = RawPrev(@), !.valid_ = TRUE]
    ELSE IF FvValid(it, d)
         THEN LET ch == FvDecrement(x, it.child_, d - 1)
              IN  IF FvValid(ch, d - 1)
                  THEN [it EXCEPT !.child_ = ch]
                  ELSE FvSeekBackward(x, [it EXCEPT !.child_ = ch], d)
         ELSE FvSeekBackward(x, it, d)

\* The result of a throwing operation.
OutOfBounds == [error |-> "access out of bounds"]

RECURSIVE FvDereference(_, _)
\* dereference() returning *begin_ instead of *current_ at the bottom level.
FvDereferenceRowStart(it, d) ==
    IF ~FvValid(it, d) THEN OutOfBounds
    ELSE IF d = 1 THEN it.begin_
    ELSE FvDereference(it.child_, d - 1)

\* dereference() without its `if (!valid()) throw` test.
FvDereferenceUnchecked(it, d) ==
    IF d = 1 THEN it.current_
    ELSE FvDereference(it.child_, d - 1)

\* dereference(): the address of the current scalar (a raw iterator at the
\* bottom level), or the out-of-bounds error.
FvDereference(it, d) ==
    IF ~FvValid(it, d) THEN OutOfBounds
    ELSE IF d = 1 THEN it.current_
    ELSE FvDereference(it.child_, d - 1)

RECURSIVE FvEqual(_, _, _)
\* An equal() that compares the children whether the iterators are valid or
\* not.
FvEqualWithChild(a, b, d) ==
    IF d = 1
    THEN a.begin_ = b.begin_ /\ a.current_ = b.current_ /\ a.end_ = b.end_
         /\ a.valid_ = b.valid_
    ELSE a.begin_ = b.begin_ /\ a.current_ = b.current_ /\ a.end_ = b.end_
         /\ FvValid(a, d) = FvValid(b, d)
         /\ FvEqual(a.child_, b.child_, d - 1)

\* equal()
FvEqual(a, b, d) ==
    IF d = 1
    THEN a.begin_ = b.begin_ /\ a.current_ = b.current_ /\ a.end_ = b.end_
         /\ a.valid_ = b.valid_
    ELSE a.begin_ = b.begin_ /\ a.current_ = b.current_ /\ a.end_ = b.end_
         /\ (   (~FvValid(a, d) /\ ~FvValid(b, d))
             \/ (FvValid(a, d) /\ FvValid(b, d) /\ FvEqual(a.child_, b.child_, d - 1)))

RECURSIVE FvAdvance(_, _, _, _)
\* advance(n): n increments when n > 0, -n decrements when n < 0.
FvAdvance(x, it, n, d) ==
    IF n > 0 THEN FvAdvance(x, FvIncrement(x, it, d), n - 1, d)
    ELSE IF n < 0 THEN FvAdvance(x, FvDecrement(x, it, d), n + 1, d)
    ELSE it

RECURSIVE Assign(_, _, _, _)
\* *target = v for a raw iterator [c |-> path, i |-> offset] pointing to a
\* scalar of x: x with that one element replaced.
Assign(x, path, i, v) ==
    IF path = <<>> THEN [x EXCEPT ![i + 1] = v]
    ELSE [x EXCEPT ![Head(path) + 1] = Assign(@, Tail(path), i, v)]

\* FlatView::begin() and FlatView::end() of a view over the whole of x.
FlatBegin(x) == FvMakeBegin(x, [c |-> <<>>, i |-> 0], [c |-> <<>>, i |-> Len(x)], Dim)
FlatEnd(x)   == FvMakeEnd(x, [c |-> <<>>, i |-> 0], [c |-> <<>>, i |-> Len(x)], Dim)


-----------------------------------------------------------------------------
(* size_t and ptrdiff_t arithmetic *)
(* The code mixes size_t (index_, physicalBound_, the bounds) and          *)
(* ptrdiff_t (n).  Both are modelled 16 bits wide instead of 64: every     *)
(* size in the model is far below 2^15, so only the wrap-around of         *)
(* negative values shows, as in the code.                                  *)

SizeMod == 2^16

\* static_cast<size_t>(z), and the result of size_t arithmetic
ToSize(z) == z % SizeMod

\* static_cast<difference_type>(u)
ToDiff(u) == IF u >= SizeMod \div 2 THEN u - SizeMod ELSE u

ONE_BEFORE_THE_FIRST == ToSize(-1)

\* The size_t that stands for "not computed yet".
NO_VALUE == ToSize(-1)

-----------------------------------------------------------------------------
(* Distances of FlatViewIterators, and the FlatView object *)
(* A FlatView is the record [begin_, end_, cachedSize_].                   *)

\* The exception of distance_to.
UnrelatedRanges ==
    [error |-> "Attempted to compare iterators not belonging to same container"]

\* distance_to(): 0 for equal iterators; else the forward search, while tmp
\* is valid; else the backward search, a do-while on tmp being valid; else the
\* exception.  A distance returned is the record [distance |-> n].
FvDistanceTo(x, a, b, d) ==
    LET RECURSIVE Forward(_, _)
        Forward(tmp, result) ==
            IF ~FvValid(tmp, d) THEN UnrelatedRanges
            ELSE LET nx == FvIncrement(x, tmp, d)
                 IN  IF FvEqual(nx, b, d) THEN [distance |-> result + 1]
                     ELSE Forward(nx, result + 1)
        RECURSIVE Backward(_, _)
        Backward(tmp, result) ==
            LET pv == FvDecrement(x, tmp, d)
            IN  IF FvEqual(pv, b, d) THEN [distance |-> result - 1]
                ELSE IF FvValid(pv, d) THEN Backward(pv, result - 1)
                ELSE UnrelatedRanges
    IN  IF FvEqual(a, b, d) THEN [distance |-> 0]
        ELSE IF Forward(a, 0) # UnrelatedRanges THEN Forward(a, 0)
        ELSE Backward(a, 0)

\* makeFlatView(container): the view over the whole of x
makeFlatView(x) ==
    [begin_ |-> [c |-> <<>>, i |-> 0], end_ |-> [c |-> <<>>, i |-> Len(x)],
     cachedSize_ |-> NO_VALUE]

\* makeFlatView(container) for the subrange of x at the non-empty path p
makeFlatViewOf(x, p) ==
    LET it == [c |-> SubSeq(p, 1, Len(p) - 1), i |-> p[Len(p)]]
    IN  [begin_ |-> RawBeginOf(x, it), end_ |-> RawEndOf(x, it),
         cachedSize_ |-> NO_VALUE]

\* A size() that measures the range itself: the distance of the raw limits.
FlatSizeOfRange(x, fv) ==
    IF fv.cachedSize_ = NO_VALUE THEN ToSize(fv.end_.i - fv.begin_.i)
    ELSE fv.cachedSize_

\* FlatView::size() throws: the size is not cached and the distance from
\* begin() to end() is not found.
FlatSizeThrows(x, fv) ==
    /\ fv.cachedSize_ = NO_VALUE
    /\ FvDistanceTo(x, FlatBegin(x), FlatEnd(x), Dim) = UnrelatedRanges

\* FlatView::size() when it does not throw: the value returned, which is also
\* cachedSize_ after the call.  std::distance(begin(), end()) of random
\* access iterators is end() - begin(), that is begin().distance_to(end()).
FlatSize(x, fv) ==
    IF fv.cachedSize_ = NO_VALUE
    THEN ToSize(FvDistanceTo(x, FlatBegin(x), FlatEnd(x), Dim).distance)
    ELSE fv.cachedSize_

\* FlatView::empty() when size() does not throw
FlatEmpty(x, fv) == FlatSize(x, fv) = 0

\* begin(), end() and size() of a view of dimensionality d
FlatBeginOf(x, fv, d) == FvMakeBegin(x, fv.begin_, fv.end_, d)
FlatEndOf(x, fv, d)   == FvMakeEnd(x, fv.begin_, fv.end_, d)
FlatSizeOf(x, fv, d) ==
    IF fv.cachedSize_ = NO_VALUE
    THEN ToSize(FvDistanceTo(x, FlatBeginOf(x, fv, d), FlatEndOf(x, fv, d), d).distance)
    ELSE fv.cachedSize_

RECURSIVE FlatLevels(_, _)
\* The number of nested FlatViewIterators of a FlatView<CustomScalarTrait>
\* over a range of height h: an iterator has a child (hasSubIterator) unless
\* the value_type of its raw iterator is a scalar.
FlatLevels(CustomScalarTrait, h) ==
    IF IsScalar(CustomScalarTrait, h - 1, "bare") THEN 1
    ELSE 1 + FlatLevels(CustomScalarTrait, h - 1)

\* What `for (auto& value : flatView)` meets, in order, on a view of
\* dimensionality d.
FlatViewValues(x, fv, d) ==
    LET RECURSIVE Loop(_)
        Loop(it) ==
            IF FvEqual(it, FlatEndOf(x, fv, d), d) THEN <<>>
            ELSE <<ValueAt(x, FvDereference(it, d))>> \o Loop(FvIncrement(x, it, d))
    IN  Loop(FlatBeginOf(x, fv, d))

RECURSIVE StdEqual(_, _, _, _, _)
\* std::equal(first1, last1, first2) over FlatViewIterators
StdEqual(x, first1, last1, first2, d) ==
    IF FvEqual(first1, last1, d) THEN TRUE
    ELSE IF ValueAt(x, FvDereference(first1, d)) # ValueAt(x, FvDereference(first2, d))
    THEN FALSE
    ELSE StdEqual(x, FvIncrement(x, first1, d), last1, FvIncrement(x, first2, d), d)

RECURSIVE StdLexicographicalCompare(_, _, _, _, _, _)
\* A lexicographical comparison that calls a range less than an equal one:
\* it ends with `first1 == last1`.
StdLexicographicalPrefix(x, first1, last1, first2, last2, d) ==
    IF FvEqual(first1, last1, d) \/ FvEqual(first2, last2, d)
    THEN FvEqual(first1, last1, d)
    ELSE LET v1 == ValueAt(x, FvDereference(first1, d))
             v2 == ValueAt(x, FvDereference(first2, d))
         IN  IF v1 < v2 THEN TRUE
             ELSE IF v2 < v1 THEN FALSE
             ELSE StdLexicographicalCompare(x, FvIncrement(x, first1, d), last1,
                                            FvIncrement(x, first2, d), last2, d)

\* std::lexicographical_compare(first1, last1, first2, last2) over
\* FlatViewIterators: the loop while neither range is over, then
\* `first1 == last1 && first2 != last2`.
StdLexicographicalCompare(x, first1, last1, first2, last2, d) ==
    IF FvEqual(first1, last1, d) \/ FvEqual(first2, last2, d)
    THEN FvEqual(first1, last1, d) /\ ~FvEqual(first2, last2, d)
    ELSE LET v1 == ValueAt(x, FvDereference(first1, d))
             v2 == ValueAt(x, FvDereference(first2, d))
         IN  IF v1 < v2 THEN TRUE
             ELSE IF v2 < v1 THEN FALSE
             ELSE StdLexicographicalCompare(x, FvIncrement(x, first1, d), last1,
                                            FvIncrement(x, first2, d), last2, d)

\* FlatView::operator== and FlatView::compare of views a and b
FlatViewEqual(x, a, b, d) ==
    /\ FlatSizeOf(x, a, d) = FlatSizeOf(x, b, d)
    /\ StdEqual(x, FlatBeginOf(x, a, d), FlatEndOf(x, a, d), FlatBeginOf(x, b, d), d)
FlatViewCompare(x, a, b, d) ==
    StdLexicographicalCompare(x, FlatBeginOf(x, a, d), FlatEndOf(x, a, d),
                              FlatBeginOf(x, b, d), FlatEndOf(x, b, d), d)

\* The comparison operators of FlatView, a being *this and b being other
FlatViewNotEqual(x, a, b, d)  == ~FlatViewEqual(x, b, a, d)
FlatViewLess(x, a, b, d)      == FlatViewCompare(x, a, b, d)
FlatViewGreater(x, a, b, d)   == FlatViewCompare(x, b, a, d)
FlatViewLessEq(x, a, b, d)    == ~FlatViewGreater(x, a, b, d)
FlatViewGreaterEq(x, a, b, d) == ~FlatViewGreater(x, b, a, d)

-----------------------------------------------------------------------------
(* BoxedView, BoxedViewIterator, BoxedViewScalarProxy *)
(* A view is [made, begin_, end_, defaultValue_, bounds_].  An iterator is *)
(* [current_, physicalBound_, apparentBounds_, index_]: apparentBounds_ is *)
(* the offset into the bounds_ array of the view its pointer stands at,    *)
(* so its dimensionality_ is Dim - apparentBounds_; its defaultValue_      *)
(* pointer always points to the defaultValue_ of the view.  A proxy is     *)
(* [target_, valid_].                                                      *)

\* The exception of makeBoxedView.
BoundsMismatch == [error |-> "makeBoxedView : limit list has false size"]

\* makeBoxedView that leaves bounds_ zero when the bounds list is empty.
makeBoxedViewZeroBounds(x, defaultValue, apparentBounds) ==
    IF Len(apparentBounds) \notin {0, Dim} THEN BoundsMismatch
    ELSE [made |-> TRUE,
          begin_ |-> [c |-> <<>>, i |-> 0], end_ |-> [c |-> <<>>, i |-> Len(x)],
          defaultValue_ |-> defaultValue,
          bounds_ |-> IF apparentBounds = <<>> THEN [j \in 1..Dim |-> 0]
                      ELSE apparentBounds]

\* makeBoxedView that refuses only the lists that are too short.
makeBoxedViewAcceptsLonger(x, defaultValue, apparentBounds) ==
    IF apparentBounds = <<>>
    THEN [made |-> TRUE,
          begin_ |-> [c |-> <<>>, i |-> 0], end_ |-> [c |-> <<>>, i |-> Len(x)],
          defaultValue_ |-> defaultValue, bounds_ |-> bounds(x, Dim)]
    ELSE IF Len(apparentBounds) < Dim THEN BoundsMismatch
    ELSE [made |-> TRUE,
          begin_ |-> [c |-> <<>>, i |-> 0], end_ |-> [c |-> <<>>, i |-> Len(x)],
          defaultValue_ |-> defaultValue, bounds_ |-> apparentBounds]

\* makeBoxedView(container, defaultValue, apparentBounds)
makeBoxedView(x, defaultValue, apparentBounds) ==
    IF apparentBounds = <<>>
    THEN IF boundsThrows(x, Dim) THEN ShapeMismatch
         ELSE
         [made |-> TRUE,
          begin_ |-> [c |-> <<>>, i |-> 0], end_ |-> [c |-> <<>>, i |-> Len(x)],
          defaultValue_ |-> defaultValue, bounds_ |-> bounds(x, Dim)]
    ELSE IF Len(apparentBounds) # Dim THEN BoundsMismatch
    ELSE [made |-> TRUE,
          begin_ |-> [c |-> <<>>, i |-> 0], end_ |-> [c |-> <<>>, i |-> Len(x)],
          defaultValue_ |-> defaultValue, bounds_ |-> apparentBounds]

\* bounds<CustomScalarTrait>(first, last) for a range x whose elements have
\* height h: the version for monolevel ranges or the one for multilevel
\* ranges, chosen by the value_type of the iterator.
boundsRangeWith(CustomScalarTrait, x, h) ==
    IF IsScalar(CustomScalarTrait, h, "bare") THEN [bounds |-> <<Len(x)>>]
    ELSE LET rangeDimensionality == DimensionalityRange(CustomScalarTrait, h)
             RECURSIVE Loop(_, _)
             Loop(k, containerBounds) ==
                 IF k > Len(x) THEN [bounds |-> containerBounds]
                 ELSE LET subContainerBounds == boundsWith(CustomScalarTrait, x[k], h)
                      IN  IF subContainerBounds = ShapeMismatch THEN ShapeMismatch
                          ELSE IF Len(subContainerBounds.bounds) # rangeDimensionality - 1
                          THEN ShapeMismatch
                          ELSE Loop(k + 1,
                                   [j \in 1..rangeDimensionality |->
                                       IF j = 1 THEN containerBounds[1]
                                       ELSE IF k = 1 \/ containerBounds[j] < subContainerBounds.bounds[j - 1]
                                       THEN subContainerBounds.bounds[j - 1]
                                       ELSE containerBounds[j]])
         IN  Loop(1, [j \in 1..rangeDimensionality |-> IF j = 1 THEN Len(x) ELSE 0])

\* A call of makeBoxedView that the compiler rejects: the BoxedView of the
\* return statement does not convert to the BoxedView of the return type.
IllFormed == [error |-> "could not convert BoxedView to the return type"]

\* makeBoxedView<CustomScalarTrait>(first, last, defaultValue, apparentBounds)
\* for a range x whose elements have height h.  The return type is declared
\* with DimensionalityRange<CustomScalarTrait, Iterator>, while the body
\* compares the list with, and builds the view from, dimensionality(first,
\* last), which is instantiated without the trait.  The constructor copies
\* that many bounds from the list or from the vector of the natural bounds;
\* beyond[j] is what it finds where it reads bound j past the end of that
\* vector.
makeBoxedViewWith(CustomScalarTrait, x, h, defaultValue, apparentBounds, beyond) ==
    LET declared == DimensionalityRange(CustomScalarTrait, h)
        built == DimensionalityRange(NoCustomScalars, h)
        containerBounds == boundsRangeWith(CustomScalarTrait, x, h)
    IN  IF declared # built THEN IllFormed
        ELSE IF apparentBounds = <<>>
        THEN IF containerBounds = ShapeMismatch THEN ShapeMismatch
             ELSE [made |-> TRUE, dimensionality_ |-> built,
                   defaultValue_ |-> defaultValue,
                   bounds_ |-> [j \in 1..built |->
                                   IF j <= Len(containerBounds.bounds)
                                   THEN containerBounds.bounds[j] ELSE beyond[j]]]
        ELSE IF Len(apparentBounds) # built THEN BoundsMismatch
        ELSE [made |-> TRUE, dimensionality_ |-> built,
              defaultValue_ |-> defaultValue,
              bounds_ |-> [j \in 1..built |-> apparentBounds[j]]]

\* apparentBounds_[0] of an iterator of the view v
ApparentBound(v, it) == v.bounds_[it.apparentBounds_ + 1]

\* The Forward constructor behind makeBegin.
BvMakeBegin(first, last, apparentBounds) ==
    [current_ |-> first,
     physicalBound_ |-> last.i - first.i,
     apparentBounds_ |-> apparentBounds,
     index_ |-> 0]

RECURSIVE BvWalkBack(_, _, _)
\* The correction loop of the Backward constructor.
BvWalkBack(current, currentIndex, apparentBound) ==
    IF currentIndex > apparentBound
    THEN BvWalkBack(RawPrev(current), currentIndex - 1, apparentBound)
    ELSE current

\* A Backward constructor without the correction loop: current_ stays at the
\* physical end.
BvMakeEndAtPhysicalEnd(v, first, last, apparentBounds) ==
    [current_ |-> last,
     physicalBound_ |-> last.i - first.i,
     apparentBounds_ |-> apparentBounds,
     index_ |-> v.bounds_[apparentBounds + 1]]

\* The Backward constructor behind makeEnd.
BvMakeEnd(v, first, last, apparentBounds) ==
    LET physicalBound == last.i - first.i
        apparentBound == v.bounds_[apparentBounds + 1]
    IN  [current_ |-> IF apparentBound < physicalBound
                      THEN BvWalkBack(last, physicalBound, apparentBound)
                      ELSE last,
         physicalBound_ |-> physicalBound,
         apparentBounds_ |-> apparentBounds,
         index_ |-> apparentBound]

\* BoxedView::begin() and BoxedView::end()
BoxedBegin(v) == BvMakeBegin(v.begin_, v.end_, 0)
BoxedEnd(v)   == BvMakeEnd(v, v.begin_, v.end_, 0)

\* BoxedView::size(): std::distance(begin_, end_), the distance of the raw
\* limits the view was made with.  The value is cached in cachedSize_; the
\* limits of a view never change, so the cached value is this one.
BoxedViewSize(v) == ToSize(v.end_.i - v.begin_.i)

\* BoxedView::empty()
BoxedViewEmpty(v) == BoxedViewSize(v) = 0

\* increment(): the iterator after ++, or the exception
BvIncrement(v, it) ==
    IF it.index_ = ApparentBound(v, it) THEN OutOfBounds
    ELSE [it EXCEPT !.current_ = IF it.index_ < it.physicalBound_ THEN RawNext(@) ELSE @,
                    !.index_ = ToSize(@ + 1)]

\* decrement(): the iterator after --, or the exception
BvDecrement(v, it) ==
    IF it.index_ = ONE_BEFORE_THE_FIRST THEN OutOfBounds
    ELSE [it EXCEPT !.current_ = IF it.index_ > 0 /\ it.index_ <= it.physicalBound_
                                 THEN RawPrev(@) ELSE @,
                    !.index_ = ToSize(@ - 1)]

\* advance(n) without the test `index_ + n < -1`.
BvAdvanceNoLowerCheck(v, it, n) ==
    IF ToDiff(it.index_) + n > ToDiff(ApparentBound(v, it))
    THEN OutOfBounds
    ELSE [it EXCEPT
             !.current_ =
                 IF ToSize(it.index_ + n) > it.physicalBound_
                 THEN [@ EXCEPT !.i = @ + ToDiff(ToSize(it.physicalBound_ - it.index_))]
                 ELSE [@ EXCEPT !.i = @ + n],
             !.index_ = ToSize(@ + n)]

\* advance(n) over a random access raw iterator (as those of std::vector):
\* the iterator after += n, or the exception.  index_ + n is a size_t, so
\* the test `index_ + n < 0` never holds.
BvAdvance(v, it, n) ==
    IF ToDiff(it.index_) + n > ToDiff(ApparentBound(v, it)) \/ ToDiff(it.index_) + n < -1
    THEN OutOfBounds
    ELSE [it EXCEPT
             !.current_ =
                 IF ToSize(it.index_ + n) > it.physicalBound_
                 THEN [@ EXCEPT !.i = @ + ToDiff(ToSize(it.physicalBound_ - it.index_))]
                 ELSE IF ToSize(it.index_ + n) < 0
                 THEN [@ EXCEPT !.i = @ - it.index_]
                 ELSE [@ EXCEPT !.i = @ + n],
             !.index_ = ToSize(@ + n)]

RECURSIVE BvAdvanceBySteps(_, _, _)
\* advance(n) over a raw iterator without random access (as those of
\* std::list): n times ++ or -n times --, the error checking left to
\* increment() and decrement().  The result is the iterator as the call
\* leaves it and whether it threw: a step that throws ends the loop and
\* leaves what the steps before it did.
BvAdvanceBySteps(v, it, n) ==
    IF n = 0 THEN [it |-> it, threw |-> FALSE]
    ELSE LET step == IF n > 0 THEN BvIncrement(v, it) ELSE BvDecrement(v, it)
         IN  IF step = OutOfBounds THEN [it |-> it, threw |-> TRUE]
             ELSE BvAdvanceBySteps(v, step, IF n > 0 THEN n - 1 ELSE n + 1)

\* The friend functions begin(it) and end(it): it - it.index_ and
\* it + (it.apparentBounds_[0] - it.index_), the operands being size_t
\* converted to difference_type.
BvBeginOf(v, it) == BvAdvance(v, it, -ToDiff(it.index_))
BvEndOf(v, it)   == BvAdvance(v, it, ToDiff(ToSize(ApparentBound(v, it) - it.index_)))

\* distance_to() without the two corrections for the fill region: the
\* distance of the raw positions.
BvDistanceToRaw(a, b) == b.current_.i - a.current_.i

\* distance_to(): the distance of the raw positions, corrected by how far each
\* index_ lies beyond its physicalBound_; a difference_type added to size_t
\* values, so computed as a size_t and converted back.
BvDistanceTo(a, b) ==
    ToDiff(ToSize((b.current_.i - a.current_.i)
                  - (IF a.index_ > a.physicalBound_
                     THEN a.index_ - a.physicalBound_ ELSE 0)
                  + (IF b.index_ > b.physicalBound_
                     THEN b.index_ - b.physicalBound_ ELSE 0)))

\* dereference() that tests index_ against physicalBound_ where the code
\* tests it against apparentBounds_[0].
BvDereferencePhysicalCheck(x, v, it) ==
    IF it.index_ = ONE_BEFORE_THE_FIRST \/ it.index_ = it.physicalBound_
    THEN OutOfBounds
    ELSE IF Dim - it.apparentBounds_ > 1
    THEN IF it.index_ < it.physicalBound_
         THEN BvMakeBegin(RawBeginOf(x, it.current_), RawEndOf(x, it.current_),
                          it.apparentBounds_ + 1)
         ELSE BvMakeBegin(NullRaw, NullRaw, it.apparentBounds_ + 1)
    ELSE IF it.index_ < it.physicalBound_
         THEN [target_ |-> it.current_, valid_ |-> TRUE]
         ELSE [target_ |-> it.current_, valid_ |-> FALSE]

\* dereference() without the test `index_ == apparentBounds_[0]`.
BvDereferenceNoUpperCheck(x, v, it) ==
    IF it.index_ = ONE_BEFORE_THE_FIRST
    THEN OutOfBounds
    ELSE IF Dim - it.apparentBounds_ > 1
    THEN IF it.index_ < it.physicalBound_
         THEN BvMakeBegin(RawBeginOf(x, it.current_), RawEndOf(x, it.current_),
                          it.apparentBounds_ + 1)
         ELSE BvMakeBegin(NullRaw, NullRaw, it.apparentBounds_ + 1)
    ELSE IF it.index_ < it.physicalBound_
         THEN [target_ |-> it.current_, valid_ |-> TRUE]
         ELSE [target_ |-> it.current_, valid_ |-> FALSE]

\* dereference(): a child iterator when dimensionality_ > 1, a proxy when it
\* is 1, or the exception.
BvDereference(x, v, it) ==
    IF it.index_ = ONE_BEFORE_THE_FIRST \/ it.index_ = ApparentBound(v, it)
    THEN OutOfBounds
    ELSE IF Dim - it.apparentBounds_ > 1
    THEN IF it.index_ < it.physicalBound_
         THEN BvMakeBegin(RawBeginOf(x, it.current_), RawEndOf(x, it.current_),
                          it.apparentBounds_ + 1)
         ELSE BvMakeBegin(NullRaw, NullRaw, it.apparentBounds_ + 1)
    ELSE IF it.index_ < it.physicalBound_
         THEN [target_ |-> it.current_, valid_ |-> TRUE]
         ELSE [target_ |-> it.current_, valid_ |-> FALSE]

\* operator[] of BoxedViewIterator: *(it + n)
BvSubscript(x, v, it, n) ==
    LET moved == BvAdvance(v, it, n)
    IN  IF moved = OutOfBounds THEN OutOfBounds ELSE BvDereference(x, v, moved)

\* BoxedView::operator[](size_type n): *(begin() + n)
BoxedSubscript(x, v, n) == BvSubscript(x, v, BoxedBegin(v), ToDiff(ToSize(n)))

\* A conversion that value-initialises the scalar of an invalid proxy instead
\* of copying the default value.
ProxyReadZero(x, v, p) == IF p.valid_ THEN ValueAt(x, p.target_) ELSE 0

\* BoxedViewScalarProxy::operator ScalarType
ProxyRead(x, v, p) == IF p.valid_ THEN ValueAt(x, p.target_) ELSE v.defaultValue_

\* An operator= that never writes.
ProxyAssignDropped(x, p, rhs) == x

\* BoxedViewScalarProxy::operator=: the underlying range after the assignment
ProxyAssign(x, p, rhs) ==
    IF p.valid_ THEN Assign(x, p.target_.c, p.target_.i, rhs) ELSE x

-----------------------------------------------------------------------------
(* FlatView over a BoxedView *)
(* FlatViewIterator instantiated with BoxedViewIterator as its raw         *)
(* iterator: the raw ++, ==, <, * and begin()/end() of FlatViewIterator    *)
(* are those of BoxedViewIterator.  The leaf specialization walks a        *)
(* BoxedViewIterator of dimensionality 1, the nested one a                 *)
(* BoxedViewIterator of dimensionality 2 with a leaf child.  (The nested   *)
(* default constructor initialises its raw iterators from nullptr, which   *)
(* BoxedViewIterator does not accept, so a nested child, needed from       *)
(* dimensionality 3 on, does not build.)  Every operation gives            *)
(* OutOfBounds when a raw operation it performs throws.                    *)

\* A BoxedView over the subrange of x at `path`, of dimensionality d.  Its d
\* bounds are kept in the last d places of a Dim-long array, so that its
\* iterators, which start Dim - d places in, have dimensionality_ d.
makeBoxedViewOf(x, path, d, defaultValue, apparentBounds) ==
    LET y == At(x, path)
        pad == [j \in 1..(Dim - d) |-> 0]
    IN  IF apparentBounds = <<>> /\ boundsThrows(y, d) THEN ShapeMismatch
        ELSE IF apparentBounds # <<>> /\ Len(apparentBounds) # d THEN BoundsMismatch
        ELSE [made |-> TRUE,
              begin_ |-> [c |-> path, i |-> 0], end_ |-> [c |-> path, i |-> Len(y)],
              defaultValue_ |-> defaultValue,
              bounds_ |-> pad \o (IF apparentBounds = <<>> THEN bounds(y, d)
                                  ELSE apparentBounds)]

\* begin() and end() of such a view
BoxedBeginOf(v, d) == BvMakeBegin(v.begin_, v.end_, Dim - d)
BoxedEndOf(v, d)   == BvMakeEnd(v, v.begin_, v.end_, Dim - d)

\* BoxedViewIterator(): the default constructor, its bounds the array
\* nullBounds_ (never indexed in the model: Dim places in)
BvDefault ==
    [current_ |-> NullRaw, physicalBound_ |-> 0, apparentBounds_ |-> Dim, index_ |-> 0]

\* equal() of two iterators of the view v (their defaultValue_ point to the
\* same value)
BvEqual(v, a, b) ==
    /\ a.current_ = b.current_
    /\ a.physicalBound_ = b.physicalBound_
    /\ \A j \in 1..(Dim - a.apparentBounds_) :
           v.bounds_[a.apparentBounds_ + j] = v.bounds_[b.apparentBounds_ + j]
    /\ a.index_ = b.index_

\* operator<: (other - *this) > 0
BvLess(a, b) == BvDistanceTo(a, b) > 0

\* Leaf FlatViewIterator: increment()
FbLeafIncrement(v, it) ==
    LET cur == IF it.valid_ THEN BvIncrement(v, it.current_) ELSE it.current_
    IN  IF cur = OutOfBounds THEN OutOfBounds
        ELSE [it EXCEPT !.current_ = cur, !.valid_ = ~BvEqual(v, cur, it.end_)]

\* Leaf FlatViewIterator: the Forward and Backward constructors
FbLeafMakeBegin(v, first, last) ==
    FbLeafIncrement(v, [valid_ |-> FALSE, begin_ |-> first,
                        current_ |-> first, end_ |-> last])
FbLeafMakeEnd(first, last) ==
    [valid_ |-> FALSE, begin_ |-> first, current_ |-> last, end_ |-> last]

\* Leaf FlatViewIterator: dereference(), a proxy
FbLeafDereference(x, v, it) ==
    IF ~it.valid_ THEN OutOfBounds ELSE BvDereference(x, v, it.current_)

\* Leaf FlatViewIterator: equal()
FbLeafEqual(v, a, b) ==
    /\ BvEqual(v, a.begin_, b.begin_)
    /\ BvEqual(v, a.current_, b.current_)
    /\ BvEqual(v, a.end_, b.end_)
    /\ a.valid_ = b.valid_

\* Nested FlatViewIterator: valid()
FbValid(it) == BvLess(it.current_, it.end_) /\ it.child_.valid_

\* A child that is at its end at once over a subrange physically absent, as
\* over an empty subrange.
FbChildBeginSkipsFill(x, v, cur) ==
    LET sub == BvDereference(x, v, cur)
    IN  IF sub = OutOfBounds THEN OutOfBounds
        ELSE LET first == BvBeginOf(v, sub)
                 last  == BvEndOf(v, sub)
             IN  IF OutOfBounds \in {first, last} THEN OutOfBounds
                 ELSE IF sub.current_ = NullRaw THEN FbLeafMakeEnd(first, last)
                 ELSE FbLeafMakeBegin(v, first, last)

\* Nested FlatViewIterator: makeBegin(begin(*current_), end(*current_))
FbChildBegin(x, v, cur) ==
    LET sub == BvDereference(x, v, cur)
    IN  IF sub = OutOfBounds THEN OutOfBounds
        ELSE LET first == BvBeginOf(v, sub)
                 last  == BvEndOf(v, sub)
             IN  IF OutOfBounds \in {first, last} THEN OutOfBounds
                 ELSE FbLeafMakeBegin(v, first, last)

RECURSIVE FbSeekForward(_, _, _)
\* Nested FlatViewIterator: the while(1) loop of increment()
FbSeekForward(x, v, it) ==
    IF BvEqual(v, it.current_, it.end_) THEN it
    ELSE LET ch == FbChildBegin(x, v, it.current_)
         IN  IF ch = OutOfBounds THEN OutOfBounds
             ELSE IF ch.valid_ THEN [it EXCEPT !.child_ = ch]
             ELSE LET nx == BvIncrement(v, it.current_)
                  IN  IF nx = OutOfBounds THEN OutOfBounds
                      ELSE FbSeekForward(x, v, [it EXCEPT !.child_ = ch,
                                                          !.current_ = nx])

\* Nested FlatViewIterator: increment()
FbIncrement(x, v, it) ==
    IF FbValid(it)
    THEN LET ch == FbLeafIncrement(v, it.child_)
         IN  IF ch = OutOfBounds THEN OutOfBounds
             ELSE IF ch.valid_ THEN [it EXCEPT !.child_ = ch]
             ELSE LET nx == BvIncrement(v, it.current_)
                  IN  IF nx = OutOfBounds THEN OutOfBounds
                      ELSE FbSeekForward(x, v, [it EXCEPT !.child_ = ch,
                                                          !.current_ = nx])
    ELSE FbSeekForward(x, v, it)

\* Nested FlatViewIterator: the Forward and Backward constructors
FbMakeBegin(x, v, first, last) ==
    FbIncrement(x, v, [child_ |-> FbLeafMakeEnd(BvDefault, BvDefault),
                       begin_ |-> first, current_ |-> first, end_ |-> last])
FbMakeEnd(first, last) ==
    [child_ |-> FbLeafMakeEnd(BvDefault, BvDefault),
     begin_ |-> first, current_ |-> last, end_ |-> last]

\* Nested FlatViewIterator: dereference()
FbDereference(x, v, it) ==
    IF ~FbValid(it) THEN OutOfBounds ELSE FbLeafDereference(x, v, it.child_)

\* Nested FlatViewIterator: equal()
FbEqual(v, a, b) ==
    /\ BvEqual(v, a.begin_, b.begin_)
    /\ BvEqual(v, a.current_, b.current_)
    /\ BvEqual(v, a.end_, b.end_)
    /\ \/ ~FbValid(a) /\ ~FbValid(b)
       \/ FbValid(a) /\ FbValid(b) /\ FbLeafEqual(v, a.child_, b.child_)

\* makeFlatView(bv) for a view of dimensionality d (1 or 2): begin(), end(),
\* and ++, * and == of its iterators
FlatBoxedBegin(x, v, d) ==
    IF d = 1 THEN FbLeafMakeBegin(v, BoxedBeginOf(v, d), BoxedEndOf(v, d))
    ELSE FbMakeBegin(x, v, BoxedBeginOf(v, d), BoxedEndOf(v, d))
FlatBoxedEnd(v, d) ==
    IF d = 1 THEN FbLeafMakeEnd(BoxedBeginOf(v, d), BoxedEndOf(v, d))
    ELSE FbMakeEnd(BoxedBeginOf(v, d), BoxedEndOf(v, d))
FlatBoxedIncrement(x, v, it, d) ==
    IF d = 1 THEN FbLeafIncrement(v, it) ELSE FbIncrement(x, v, it)
FlatBoxedDereference(x, v, it, d) ==
    IF d = 1 THEN FbLeafDereference(x, v, it) ELSE FbDereference(x, v, it)
FlatBoxedEqual(v, a, b, d) ==
    IF d = 1 THEN FbLeafEqual(v, a, b) ELSE FbEqual(v, a, b)

-----------------------------------------------------------------------------
(* Reference notions the properties are stated with *)

RECURSIVE LeafRefs(_, _, _)
\* The addresses of the leaves physically present in x (a range of
\* dimensionality d reached by `path`), depth first, left to right.
LeafRefs(x, d, path) ==
    IF d = 1 THEN [k \in 1..Len(x) |-> [c |-> path, i |-> k - 1]]
    ELSE LET RECURSIVE Cat(_)
             Cat(k) == IF k > Len(x) THEN <<>>
                       ELSE LeafRefs(x[k], d - 1, Append(path, k - 1)) \o Cat(k + 1)
         IN  Cat(1)

Leaves(x) == LeafRefs(x, Dim, <<>>)

Reverse(s) == [k \in 1..Len(s) |-> s[Len(s) + 1 - k]]

RECURSIVE ObjPaths(_, _)
\* The paths of x and of everything in it, down to the scalars.
ObjPaths(x, d) ==
    IF d = 0 THEN {<<>>}
    ELSE {<<>>} \cup UNION { { <<k - 1>> \o p : p \in ObjPaths(x[k], d - 1) } :
                             k \in 1..Len(x) }

RECURSIVE SubrangesAt(_, _)
\* The subranges physically present k levels below the range x.
SubrangesAt(x, k) ==
    IF k = 0 THEN {x}
    ELSE UNION { SubrangesAt(x[j], k - 1) : j \in 1..Len(x) }

\* The largest length of a subrange k levels below x, 0 when there is none.
MaxLenAt(x, k) ==
    LET lens == { Len(y) : y \in SubrangesAt(x, k) }
    IN  IF lens = {} THEN 0 ELSE CHOOSE m \in lens : \A l \in lens : l <= m

\* The smallest box containing every leaf of x.
NaturalBounds(x) == [k \in 1..Dim |-> MaxLenAt(x, k - 1)]

RECURSIVE Exists(_, _)
\* The coordinates address an element physically present in x.
Exists(x, coords) ==
    \/ coords = <<>>
    \/ /\ Head(coords) \in 0..(Len(x) - 1)
       /\ Exists(x[Head(coords) + 1], Tail(coords))

-----------------------------------------------------------------------------
(* Specification SpecWalk: a client walks a FlatView forward to end() with  *)
(* ++it, reading *it at every step, then back with --it.                   *)

\* No BoxedView in this specification.
BoxedOff ==
    /\ bv = [made |-> FALSE]
    /\ cursor = [kind |-> "none"]

WalkInit ==
    /\ R \in Ranges(MaxNodes)
    /\ origin \in {"begin", "rend"}
    /\ fit = IF origin = "begin" THEN FlatBegin(R)
             ELSE FvDecrement(R, FlatBegin(R), Dim)
    /\ phase = "fwd"
    /\ trail = <<>>
    /\ visited = <<>>
    /\ rvisited = <<>>
    /\ pos = 0
    /\ lastOp = [op |-> "none"]
    /\ BoxedOff

\* for (...; it != end(); ++it) use(*it)
WalkForward ==
    /\ phase = "fwd"
    /\ ~FvEqual(fit, FlatEnd(R), Dim)
    /\ Len(trail) <= MaxNodes + 1
    /\ trail' = Append(trail, fit)
    /\ visited' = Append(visited, FvDereference(fit, Dim))
    /\ fit' = FvIncrement(R, fit, Dim)
    /\ UNCHANGED <<R, phase, origin, rvisited, pos, bv, cursor, lastOp>>

\* it == end(): the forward loop is over
TurnBack ==
    /\ phase = "fwd"
    /\ FvEqual(fit, FlatEnd(R), Dim)
    /\ phase' = "bwd"
    /\ UNCHANGED <<R, fit, origin, trail, visited, rvisited, pos, bv, cursor, lastOp>>

\* --it; use(*it), as many times as the forward loop stepped
WalkBackward ==
    /\ phase = "bwd"
    /\ Len(rvisited) < Len(trail)
    /\ fit' = FvDecrement(R, fit, Dim)
    /\ rvisited' = Append(rvisited, FvDereference(fit', Dim))
    /\ UNCHANGED <<R, phase, origin, trail, visited, pos, bv, cursor, lastOp>>

WalkFinish ==
    /\ phase = "bwd"
    /\ Len(rvisited) = Len(trail)
    /\ phase' = "done"
    /\ UNCHANGED <<R, fit, origin, trail, visited, rvisited, pos, bv, cursor, lastOp>>

WalkNext == WalkForward \/ TurnBack \/ WalkBackward \/ WalkFinish

SpecWalk == WalkInit /\ [][WalkNext]_vars

-----------------------------------------------------------------------------
(* Specification SpecFlat: a client moves one FlatViewIterator freely and   *)
(* reads and writes through it and through fv[n].                          *)

WalkOff ==
    /\ phase = "off"
    /\ origin = "begin"
    /\ trail = <<>>
    /\ visited = <<>>
    /\ rvisited = <<>>

FlatInit ==
    /\ R \in Ranges(MaxNodes)
    /\ fit = FlatBegin(R)
    /\ pos = 0
    /\ lastOp = [op |-> "none"]
    /\ WalkOff
    /\ BoxedOff

\* The logical position n steps from p, kept within [-1, number of leaves].
Clamp(p, n, x) ==
    LET q == p + n
    IN  IF q < -1 THEN -1 ELSE IF q > Len(Leaves(x)) THEN Len(Leaves(x)) ELSE q

\* ++it
FlatIncrement ==
    /\ fit' = FvIncrement(R, fit, Dim)
    /\ pos' = Clamp(pos, 1, R)
    /\ lastOp' = [op |-> "none"]
    /\ UNCHANGED <<R, phase, origin, trail, visited, rvisited, bv, cursor>>

\* --it
FlatDecrement ==
    /\ fit' = FvDecrement(R, fit, Dim)
    /\ pos' = Clamp(pos, -1, R)
    /\ lastOp' = [op |-> "none"]
    /\ UNCHANGED <<R, phase, origin, trail, visited, rvisited, bv, cursor>>

\* it += n
FlatAdvance(n) ==
    /\ fit' = FvAdvance(R, fit, n, Dim)
    /\ pos' = Clamp(pos, n, R)
    /\ lastOp' = [op |-> "none"]
    /\ UNCHANGED <<R, phase, origin, trail, visited, rvisited, bv, cursor>>

\* *it
FlatDereference ==
    /\ lastOp' = [op |-> "deref", res |-> FvDereference(fit, Dim)]
    /\ UNCHANGED <<R, fit, pos, phase, origin, trail, visited, rvisited, bv, cursor>>

\* *it = v
FlatAssign(v) ==
    LET ref == FvDereference(fit, Dim)
    IN  /\ lastOp' = [op |-> "write", n |-> pos, v |-> v, res |-> ref]
        /\ R' = IF ref = OutOfBounds THEN R ELSE Assign(R, ref.c, ref.i, v)
        /\ UNCHANGED <<fit, pos, phase, origin, trail, visited, rvisited, bv, cursor>>

\* fv[n] = v, where fv[n] is *(begin() + n)
FlatIndexAssign(n, v) ==
    LET ref == FvDereference(FvAdvance(R, FlatBegin(R), n, Dim), Dim)
    IN  /\ lastOp' = [op |-> "write", n |-> n, v |-> v, res |-> ref]
        /\ R' = IF ref = OutOfBounds THEN R ELSE Assign(R, ref.c, ref.i, v)
        /\ UNCHANGED <<fit, pos, phase, origin, trail, visited, rvisited, bv, cursor>>

FlatNext ==
    \/ FlatIncrement
    \/ FlatDecrement
    \/ \E n \in (-MaxStep..MaxStep) \ {0} : FlatAdvance(n)
    \/ FlatDereference
    \/ \E v \in WriteValues : FlatAssign(v)
    \/ \E n \in 0..Len(Leaves(R)), v \in WriteValues : FlatIndexAssign(n, v)

SpecFlat == FlatInit /\ [][FlatNext]_vars

-----------------------------------------------------------------------------
(* Specification SpecGeom: a client calls bounds and scalarSize on the     *)
(* range, on its subranges and on its scalars.                             *)

FlatOff ==
    /\ fit = FvDefault(Dim)
    /\ pos = 0

GeomInit ==
    /\ R \in Ranges(MaxNodes)
    /\ lastOp = [op |-> "none"]
    /\ FlatOff
    /\ WalkOff
    /\ BoxedOff

\* bounds(argument)
GeomBounds(path) ==
    /\ lastOp' = [op |-> "bounds", arg |-> path,
                  threw |-> boundsThrows(At(R, path), Dim - Len(path)),
                  res |-> IF boundsThrows(At(R, path), Dim - Len(path)) THEN <<>>
                          ELSE bounds(At(R, path), Dim - Len(path))]
    /\ UNCHANGED <<R, fit, phase, origin, trail, visited, rvisited, pos, bv, cursor>>

\* scalarSize(argument)
GeomScalarSize(path) ==
    /\ lastOp' = [op |-> "scalarSize", arg |-> path,
                  res |-> scalarSize(At(R, path), Dim - Len(path))]
    /\ UNCHANGED <<R, fit, phase, origin, trail, visited, rvisited, pos, bv, cursor>>

\* bounds(argument) and scalarSize(argument), side by side
GeomBoth(path) ==
    /\ ~boundsThrows(At(R, path), Dim - Len(path))
    /\ lastOp' = [op |-> "both", arg |-> path,
                  bounds |-> bounds(At(R, path), Dim - Len(path)),
                  size |-> scalarSize(At(R, path), Dim - Len(path))]
    /\ UNCHANGED <<R, fit, phase, origin, trail, visited, rvisited, pos, bv, cursor>>

GeomNext ==
    \/ \E path \in ObjPaths(R, Dim) : GeomBounds(path)
    \/ \E path \in ObjPaths(R, Dim) : GeomScalarSize(path)
    \/ \E path \in ObjPaths(R, Dim) : GeomBoth(path)

SpecGeom == GeomInit /\ [][GeomNext]_vars

-----------------------------------------------------------------------------
(* Specification SpecScalars: a client asks for the dimensionality, the    *)
(* bounds and the scalarSize of R and of its subranges under a scalar      *)
(* trait of its choice, the same for all the calls.                        *)

ScalarsInit ==
    /\ R \in Ranges(ScalarsMaxNodes)
    /\ lastOp = [op |-> "none"]
    /\ FlatOff
    /\ WalkOff
    /\ bv \in [trait : Traits]
    /\ cursor = [kind |-> "none"]

\* dimensionality<bv.trait>(argument)
ScalarsDimensionality(path) ==
    /\ lastOp' = [op |-> "dimensionality", trait |-> bv.trait, arg |-> path,
                  res |-> dimensionality(bv.trait, Dim - Len(path))]
    /\ UNCHANGED <<R, fit, phase, origin, trail, visited, rvisited, pos, bv, cursor>>

\* dimensionality<bv.trait>(begin(argument), end(argument))
ScalarsDimensionalityRange(path) ==
    /\ Len(path) < Dim
    /\ lastOp' = [op |-> "dimensionalityRange", trait |-> bv.trait, arg |-> path,
                  res |-> DimensionalityRange(bv.trait, Dim - Len(path) - 1)]
    /\ UNCHANGED <<R, fit, phase, origin, trail, visited, rvisited, pos, bv, cursor>>

\* bounds<bv.trait>(argument)
ScalarsBounds(path) ==
    /\ lastOp' = [op |-> "bounds", trait |-> bv.trait, arg |-> path,
                  res |-> boundsWith(bv.trait, At(R, path), Dim - Len(path))]
    /\ UNCHANGED <<R, fit, phase, origin, trail, visited, rvisited, pos, bv, cursor>>

\* A scalarSize that moves every subrange out of R as it counts.
ScalarsScalarSizeConsuming(path) ==
    /\ lastOp' = [op |-> "scalarSize", trait |-> bv.trait, arg |-> path,
                  res |-> scalarSizeWith(bv.trait, At(R, path), Dim - Len(path))]
    /\ R' = [k \in 1..Len(R) |-> <<>>]
    /\ UNCHANGED <<fit, phase, origin, trail, visited, rvisited, pos, bv, cursor>>

\* scalarSize<bv.trait>(argument)
ScalarsScalarSize(path) ==
    /\ lastOp' = [op |-> "scalarSize", trait |-> bv.trait, arg |-> path,
                  res |-> scalarSizeWith(bv.trait, At(R, path), Dim - Len(path))]
    /\ UNCHANGED <<R, fit, phase, origin, trail, visited, rvisited, pos, bv, cursor>>

\* for (auto& value : makeFlatView<bv.trait>(argument))
ScalarsFlatten(path) ==
    /\ Len(path) < Dim
    /\ lastOp' = [op |-> "flatten", trait |-> bv.trait, arg |-> path,
                  res |-> FlatViewValues(R,
                              IF path = <<>> THEN makeFlatView(R)
                              ELSE makeFlatViewOf(R, path),
                              FlatLevels(bv.trait, Dim - Len(path)))]
    /\ UNCHANGED <<R, fit, phase, origin, trail, visited, rvisited, pos, bv, cursor>>

\* The lists of bounds the client passes with a scalar trait: none, and one
\* of every length up to one more than the deepest range.
ScalarsBoundsArguments == { [j \in 1..len |-> MaxBound] : len \in 0..(Dim + 1) }

\* makeBoxedView<bv.trait>(begin(argument), end(argument), defaultValue,
\* apparentBounds).  Memory past the end of the vector of the natural bounds
\* holds any value.
ScalarsMakeBoxedView(path, apparentBounds) ==
    /\ Len(path) < Dim
    /\ LET h == Dim - Len(path) - 1
           read == IF apparentBounds # <<>>
                      \/ DimensionalityRange(bv.trait, h) # DimensionalityRange(NoCustomScalars, h)
                      \/ boundsRangeWith(bv.trait, At(R, path), h) = ShapeMismatch
                   THEN 0
                   ELSE Len(boundsRangeWith(bv.trait, At(R, path), h).bounds)
           missing == IF read = 0 THEN {} ELSE (read + 1)..(h + 1)
       IN  \E beyond \in [missing -> 0..MaxBound], defaultValue \in DefaultValues :
               /\ lastOp' = [op |-> "makeBoxedView", trait |-> bv.trait, arg |-> path,
                             bounds |-> apparentBounds,
                             res |-> makeBoxedViewWith(bv.trait, At(R, path), h,
                                         defaultValue, apparentBounds, beyond)]
    /\ UNCHANGED <<R, fit, phase, origin, trail, visited, rvisited, pos, bv, cursor>>

ScalarsNext ==
    \/ \E path \in ObjPaths(R, Dim) : ScalarsDimensionality(path)
    \/ \E path \in ObjPaths(R, Dim) : ScalarsDimensionalityRange(path)
    \/ \E path \in ObjPaths(R, Dim) : ScalarsBounds(path)
    \/ \E path \in ObjPaths(R, Dim) : ScalarsScalarSize(path)
    \/ \E path \in ObjPaths(R, Dim) : ScalarsFlatten(path)
    \/ \E path \in ObjPaths(R, Dim), apparentBounds \in ScalarsBoundsArguments :
           ScalarsMakeBoxedView(path, apparentBounds)

SpecScalars == ScalarsInit /\ [][ScalarsNext]_vars

-----------------------------------------------------------------------------
(* Specification SpecBoxed: a client builds a BoxedView, addresses it with *)
(* [] and with iterators stepped by ++ and --, and reads and assigns the   *)
(* scalars it reaches.  The cursor is what the client holds: the begin     *)
(* iterator `base` of a level (the view's begin(), or what the             *)
(* dereference one level up returned), an iterator `it` of that level it   *)
(* steps, and the coordinates that led there; or a proxy; or nothing any   *)
(* more ("thrown") once an operation has thrown.                           *)

BoxedInit ==
    /\ R \in Ranges(BvMaxNodes)
    /\ bv = [made |-> FALSE]
    /\ cursor = [kind |-> "none"]
    /\ lastOp = [op |-> "none"]
    /\ FlatOff
    /\ WalkOff

\* The argument lists of makeBoxedView the client tries: none, every list of
\* one bound per dimension, and a list of every other length up to one too
\* long.
BoundsArguments ==
    {<<>>} \cup [1..Dim -> 0..MaxBound]
           \cup { [j \in 1..len |-> MaxBound] : len \in (1..(Dim + 1)) \ {Dim} }

\* What a dereference returned, as a cursor.
CursorOf(result, coords) ==
    IF "valid_" \in DOMAIN result
    THEN [kind |-> "proxy", proxy |-> result, coords |-> coords]
    ELSE [kind |-> "iter", base |-> result, it |-> result, coords |-> coords]

\* auto bv = makeBoxedView(R, defaultValue, apparentBounds)
BoxedMake(defaultValue, apparentBounds) ==
    /\ ~bv.made
    /\ LET view == makeBoxedView(R, defaultValue, apparentBounds)
       IN  /\ lastOp' = [op |-> "make", arg |-> apparentBounds, res |-> view]
           /\ bv' = IF view \in {BoundsMismatch, ShapeMismatch} THEN bv ELSE view
           /\ cursor' = IF view \in {BoundsMismatch, ShapeMismatch} THEN cursor
                        ELSE CursorOf(BoxedBegin(view), <<>>)
    /\ UNCHANGED <<R, fit, phase, origin, trail, visited, rvisited, pos>>

\* base[n]: bv[n] at the top, (...)[n] on what a dereference returned
BoxedIndex(n) ==
    /\ bv.made
    /\ cursor.kind = "iter"
    /\ LET result == IF cursor.coords = <<>> THEN BoxedSubscript(R, bv, n)
                     ELSE BvSubscript(R, bv, cursor.base, n)
       IN  /\ lastOp' = [op |-> "[]", coords |-> Append(cursor.coords, n), res |-> result]
           /\ cursor' = IF result = OutOfBounds THEN [kind |-> "thrown"]
                        ELSE CursorOf(result, Append(cursor.coords, n))
    /\ UNCHANGED <<R, fit, phase, origin, trail, visited, rvisited, pos, bv>>

\* ++it
BoxedIncrement ==
    /\ bv.made
    /\ cursor.kind = "iter"
    /\ LET result == BvIncrement(bv, cursor.it)
       IN  /\ lastOp' = [op |-> "++", res |-> result]
           /\ cursor' = IF result = OutOfBounds THEN [kind |-> "thrown"]
                        ELSE [cursor EXCEPT !.it = result]
    /\ UNCHANGED <<R, fit, phase, origin, trail, visited, rvisited, pos, bv>>

\* --it
BoxedDecrement ==
    /\ bv.made
    /\ cursor.kind = "iter"
    /\ LET result == BvDecrement(bv, cursor.it)
       IN  /\ lastOp' = [op |-> "--", res |-> result]
           /\ cursor' = IF result = OutOfBounds THEN [kind |-> "thrown"]
                        ELSE [cursor EXCEPT !.it = result]
    /\ UNCHANGED <<R, fit, phase, origin, trail, visited, rvisited, pos, bv>>

\* *it
BoxedDereference ==
    /\ bv.made
    /\ cursor.kind = "iter"
    /\ LET result == BvDereference(R, bv, cursor.it)
           coords == Append(cursor.coords, ToDiff(cursor.it.index_))
       IN  /\ lastOp' = [op |-> "*", coords |-> coords, res |-> result]
           /\ cursor' = IF result = OutOfBounds THEN [kind |-> "thrown"]
                        ELSE CursorOf(result, coords)
    /\ UNCHANGED <<R, fit, phase, origin, trail, visited, rvisited, pos, bv>>

\* int value = proxy
BoxedRead ==
    /\ bv.made
    /\ cursor.kind = "proxy"
    /\ lastOp' = [op |-> "read", coords |-> cursor.coords,
                  res |-> ProxyRead(R, bv, cursor.proxy)]
    /\ UNCHANGED <<R, fit, phase, origin, trail, visited, rvisited, pos, bv, cursor>>

\* proxy = v
BoxedAssign(v) ==
    /\ bv.made
    /\ cursor.kind = "proxy"
    /\ R' = ProxyAssign(R, cursor.proxy, v)
    /\ lastOp' = [op |-> "assign", coords |-> cursor.coords, v |-> v]
    /\ UNCHANGED <<fit, phase, origin, trail, visited, rvisited, pos, bv, cursor>>

\* std::distance(begin(x), end(x)) where x is the view itself or the iterator
\* a dereference returned
BoxedExtent ==
    /\ bv.made
    /\ cursor.kind = "iter"
    /\ LET first == IF cursor.coords = <<>> THEN BoxedBegin(bv)
                    ELSE BvBeginOf(bv, cursor.base)
           last  == IF cursor.coords = <<>> THEN BoxedEnd(bv)
                    ELSE BvEndOf(bv, cursor.base)
       IN  lastOp' = [op |-> "extent", coords |-> cursor.coords,
                      res |-> IF OutOfBounds \in {first, last} THEN OutOfBounds
                              ELSE BvDistanceTo(first, last)]
    /\ UNCHANGED <<R, fit, phase, origin, trail, visited, rvisited, pos, bv, cursor>>

\* bv.size() and bv.empty()
BoxedSize ==
    /\ bv.made
    /\ lastOp' = [op |-> "size", res |-> BoxedViewSize(bv), empty |-> BoxedViewEmpty(bv)]
    /\ UNCHANGED <<R, fit, phase, origin, trail, visited, rvisited, pos, bv, cursor>>

\* The client starts again from bv.begin(), also after catching an exception.
BoxedRestart ==
    /\ bv.made
    /\ ~(cursor.kind = "iter" /\ cursor.coords = <<>> /\ cursor.it = cursor.base)
    /\ cursor' = CursorOf(BoxedBegin(bv), <<>>)
    /\ lastOp' = [op |-> "none"]
    /\ UNCHANGED <<R, fit, phase, origin, trail, visited, rvisited, pos, bv>>

BoxedNext ==
    \/ \E d \in DefaultValues, ab \in BoundsArguments : BoxedMake(d, ab)
    \/ \E n \in -1..MaxBound : BoxedIndex(n)
    \/ BoxedIncrement
    \/ BoxedDecrement
    \/ BoxedDereference
    \/ BoxedRead
    \/ \E v \in WriteValues : BoxedAssign(v)
    \/ BoxedExtent
    \/ BoxedSize
    \/ BoxedRestart

SpecBoxed == BoxedInit /\ [][BoxedNext]_vars

-----------------------------------------------------------------------------
(* Specification SpecJump: a client holds one BoxedViewIterator of a view   *)
(* over a std::vector (random access) and moves it with ++, --, += n and   *)
(* -= n, descending with * into the subranges.  `pos` is the logical       *)
(* index the client counts for itself: 0 at begin(), changed by every move *)
(* that did not throw.  An operation that throws leaves the iterator as it *)
(* was: increment, decrement and advance throw before they change          *)
(* anything.                                                               *)

\* The bounds lists of the views: none, and the same bound in every dimension.
JumpBounds == {<<>>} \cup { [j \in 1..Dim |-> b] : b \in 0..MaxBound }

JumpInit ==
    /\ R \in Ranges(BvMaxNodes)
    /\ bv \in { makeBoxedView(R, d, ab) : d \in DefaultValues, ab \in JumpBounds }
    /\ cursor = CursorOf(BoxedBegin(bv), <<>>)
    /\ pos = 0
    /\ lastOp = [op |-> "none"]
    /\ fit = FvDefault(Dim)
    /\ WalkOff

\* The raw position of an iterator lies within the storage it was built
\* over, from its physical begin to its physical end.
RawWithinStorage(base, it) ==
    /\ it.current_.c = base.current_.c
    /\ it.current_.i >= base.current_.i
    /\ it.current_.i <= base.current_.i + base.physicalBound_

\* The iterator after a move, and the client's count of its index.  A move
\* may leave the raw position outside the storage (vector iterators are
\* plain positions in the builds observed); moving such a position again is
\* undefined and the client does not do it.
JumpMoved(result, op, n, delta) ==
    /\ RawWithinStorage(cursor.base, cursor.it)
    /\ lastOp' = [op |-> op, n |-> n, threw |-> (result = OutOfBounds)]
    /\ cursor' = IF result = OutOfBounds THEN cursor
                 ELSE [cursor EXCEPT !.it = result]
    /\ pos' = IF result = OutOfBounds THEN pos ELSE pos + delta
    /\ UNCHANGED <<R, fit, phase, origin, trail, visited, rvisited, bv>>

\* ++it
JumpIncrement ==
    /\ cursor.kind = "iter"
    /\ JumpMoved(BvIncrement(bv, cursor.it), "++", 1, 1)

\* --it
JumpDecrement ==
    /\ cursor.kind = "iter"
    /\ JumpMoved(BvDecrement(bv, cursor.it), "--", 1, -1)

\* it += n
JumpAdvance(n) ==
    /\ cursor.kind = "iter"
    /\ JumpMoved(BvAdvance(bv, cursor.it, n), "+=", n, n)

\* it -= n, which is it += (-n)
JumpRetreat(n) ==
    /\ cursor.kind = "iter"
    /\ JumpMoved(BvAdvance(bv, cursor.it, -n), "-=", n, -n)

\* The raw position of the iterator can be dereferenced: it points to an
\* element of the storage the iterator was built over.
RawDereferenceable(base, it) ==
    /\ it.current_.c = base.current_.c
    /\ it.current_.i >= base.current_.i
    /\ it.current_.i < base.current_.i + base.physicalBound_

\* auto sub = *it, for an iterator over subranges.  When dereference() reads
\* *current_ (index_ < physicalBound_) with current_ outside the storage, the
\* behaviour is undefined: the client is left with nothing it can use.
JumpDescend ==
    /\ cursor.kind = "iter"
    /\ Dim - cursor.it.apparentBounds_ > 1
    /\ LET it == cursor.it
           throws == it.index_ = ONE_BEFORE_THE_FIRST \/ it.index_ = ApparentBound(bv, it)
           reads == it.index_ < it.physicalBound_
       IN  IF throws
           THEN /\ lastOp' = [op |-> "*", threw |-> TRUE]
                /\ UNCHANGED <<cursor, pos>>
           ELSE IF reads /\ ~RawDereferenceable(cursor.base, it)
           THEN /\ lastOp' = [op |-> "*", threw |-> FALSE]
                /\ cursor' = [kind |-> "undefined"]
                /\ pos' = 0
           ELSE /\ lastOp' = [op |-> "*", threw |-> FALSE]
                /\ cursor' = CursorOf(BvDereference(R, bv, it),
                                      Append(cursor.coords, ToDiff(it.index_)))
                /\ pos' = 0
    /\ UNCHANGED <<R, fit, phase, origin, trail, visited, rvisited, bv>>

\* it = bv.end()
JumpEnd ==
    /\ cursor' = [CursorOf(BoxedBegin(bv), <<>>) EXCEPT !.it = BoxedEnd(bv)]
    /\ pos' = bv.bounds_[1]
    /\ lastOp' = [op |-> "end"]
    /\ UNCHANGED <<R, fit, phase, origin, trail, visited, rvisited, bv>>

\* it = bv.begin()
JumpRestart ==
    /\ cursor # CursorOf(BoxedBegin(bv), <<>>)
    /\ cursor' = CursorOf(BoxedBegin(bv), <<>>)
    /\ pos' = 0
    /\ lastOp' = [op |-> "none"]
    /\ UNCHANGED <<R, fit, phase, origin, trail, visited, rvisited, bv>>

JumpNext ==
    \/ JumpIncrement
    \/ JumpDecrement
    \/ \E n \in -(MaxBound + 1)..(MaxBound + 1) : JumpAdvance(n)
    \/ \E n \in -(MaxBound + 1)..(MaxBound + 1) : JumpRetreat(n)
    \/ JumpDescend
    \/ JumpEnd
    \/ JumpRestart

SpecJump == JumpInit /\ [][JumpNext]_vars

-----------------------------------------------------------------------------
(* Specification SpecFlatBoxed: a client makes a BoxedView of               *)
(* dimensionality 1 or 2 over a subrange of R, wraps it with makeFlatView  *)
(* and walks the FlatView from begin() to end(), reading every element.    *)

\* The subranges of R a view is made over: those of dimensionality 1 and 2.
ViewPaths(x) == { p \in ObjPaths(x, Dim) : Dim - Len(p) \in {1, 2} }

\* The dimensionality of the view bv and the bounds it applies.
ViewDim(v) == Dim - Len(v.begin_.c)
ViewBounds(v) == [j \in 1..ViewDim(v) |-> v.bounds_[Dim - ViewDim(v) + j]]

FlatBoxedInit ==
    /\ R \in Ranges(BvMaxNodes)
    /\ \E p \in ViewPaths(R), dv \in DefaultValues :
           \E ab \in {<<>>} \cup [1..(Dim - Len(p)) -> 0..MaxBound] :
               /\ bv = makeBoxedViewOf(R, p, Dim - Len(p), dv, ab)
               /\ fit = FlatBoxedBegin(R, bv, Dim - Len(p))
    /\ phase = "fwd"
    /\ origin = "begin"
    /\ trail = <<>>
    /\ visited = <<>>
    /\ rvisited = <<>>
    /\ pos = 0
    /\ cursor = [kind |-> "none"]
    /\ lastOp = [op |-> "none"]

\* for (auto it = fv.begin(); it != fv.end(); ++it) use(*it)
FlatBoxedForward ==
    /\ phase = "fwd"
    /\ fit # OutOfBounds
    /\ ~FlatBoxedEqual(bv, fit, FlatBoxedEnd(bv, ViewDim(bv)), ViewDim(bv))
    /\ LET p == FlatBoxedDereference(R, bv, fit, ViewDim(bv))
       IN  IF p = OutOfBounds
           THEN /\ phase' = "threw"
                /\ UNCHANGED <<fit, visited, pos>>
           ELSE /\ visited' = Append(visited, ProxyRead(R, bv, p))
                /\ fit' = FlatBoxedIncrement(R, bv, fit, ViewDim(bv))
                /\ pos' = pos + 1
                /\ phase' = IF fit' = OutOfBounds THEN "threw" ELSE phase
    /\ UNCHANGED <<R, origin, trail, rvisited, bv, cursor, lastOp>>

\* it == fv.end(): the loop is over
FlatBoxedFinish ==
    /\ phase = "fwd"
    /\ fit # OutOfBounds
    /\ FlatBoxedEqual(bv, fit, FlatBoxedEnd(bv, ViewDim(bv)), ViewDim(bv))
    /\ phase' = "done"
    /\ UNCHANGED <<R, fit, origin, trail, visited, rvisited, pos, bv, cursor, lastOp>>

FlatBoxedNext == FlatBoxedForward \/ FlatBoxedFinish

SpecFlatBoxed == FlatBoxedInit /\ [][FlatBoxedNext]_vars

-----------------------------------------------------------------------------
(* Specification SpecStep: a client holds a FlatView of R and one of its    *)
(* iterators, steps the iterator with ++ and --, takes begin() and end()   *)
(* anew, and asks the view its size() and whether it is empty().  lastOp   *)
(* keeps the iterator the step started from.                               *)

StepInit ==
    /\ R \in Ranges(MaxNodes)
    /\ bv = makeFlatView(R)
    /\ fit = FlatBegin(R)
    /\ pos = 0
    /\ lastOp = [op |-> "none"]
    /\ cursor = [kind |-> "none"]
    /\ WalkOff

\* ++it
StepIncrement ==
    LET result == FvIncrement(R, fit, Dim)
    IN  /\ lastOp' = [op |-> "++", from |-> fit, threw |-> (result = OutOfBounds)]
        /\ fit' = IF result = OutOfBounds THEN fit ELSE result
        /\ pos' = IF result = OutOfBounds THEN pos ELSE Clamp(pos, 1, R)
        /\ UNCHANGED <<R, phase, origin, trail, visited, rvisited, bv, cursor>>

\* --it
StepDecrement ==
    LET result == FvDecrement(R, fit, Dim)
    IN  /\ lastOp' = [op |-> "--", from |-> fit, threw |-> (result = OutOfBounds)]
        /\ fit' = IF result = OutOfBounds THEN fit ELSE result
        /\ pos' = IF result = OutOfBounds THEN pos ELSE Clamp(pos, -1, R)
        /\ UNCHANGED <<R, phase, origin, trail, visited, rvisited, bv, cursor>>

\* it = fv.begin()
StepBegin ==
    /\ fit' = FlatBegin(R)
    /\ pos' = 0
    /\ lastOp' = [op |-> "begin"]
    /\ UNCHANGED <<R, phase, origin, trail, visited, rvisited, bv, cursor>>

\* it = fv.end()
StepEnd ==
    /\ fit' = FlatEnd(R)
    /\ pos' = Len(Leaves(R))
    /\ lastOp' = [op |-> "end"]
    /\ UNCHANGED <<R, phase, origin, trail, visited, rvisited, bv, cursor>>

\* fv.size()
StepSize ==
    /\ IF FlatSizeThrows(R, bv)
       THEN /\ lastOp' = [op |-> "size", threw |-> TRUE]
            /\ bv' = bv
       ELSE /\ lastOp' = [op |-> "size", threw |-> FALSE,
                          before |-> bv.cachedSize_, res |-> FlatSize(R, bv)]
            /\ bv' = [bv EXCEPT !.cachedSize_ = FlatSize(R, bv)]
    /\ UNCHANGED <<R, fit, pos, phase, origin, trail, visited, rvisited, cursor>>

\* fv.empty()
StepEmpty ==
    /\ IF FlatSizeThrows(R, bv)
       THEN /\ lastOp' = [op |-> "empty", threw |-> TRUE]
            /\ bv' = bv
       ELSE /\ lastOp' = [op |-> "empty", threw |-> FALSE,
                          before |-> bv.cachedSize_, res |-> FlatEmpty(R, bv)]
            /\ bv' = [bv EXCEPT !.cachedSize_ = FlatSize(R, bv)]
    /\ UNCHANGED <<R, fit, pos, phase, origin, trail, visited, rvisited, cursor>>

StepNext ==
    \/ StepIncrement
    \/ StepDecrement
    \/ StepBegin
    \/ StepEnd
    \/ StepSize
    \/ StepEmpty

SpecStep == StepInit /\ [][StepNext]_vars

-----------------------------------------------------------------------------
(* Specification SpecApart: a client makes FlatViews of two different       *)
(* subranges of R, of the same type, holds an iterator of each, steps them *)
(* with ++ and --, and takes the distance from the first to the second.    *)
(* bv holds the two views and their dimensionality, fit the iterator of    *)
(* the first, cursor that of the second.                                   *)

\* The pairs of different subranges of x of the same dimensionality, 1 or 2.
ApartPaths(x) ==
    { pq \in ObjPaths(x, Dim) \X ObjPaths(x, Dim) :
          /\ pq[1] # pq[2]
          /\ Len(pq[1]) = Len(pq[2])
          /\ Dim - Len(pq[1]) \in {1, 2} }

ApartInit ==
    /\ R \in Ranges(MaxNodes)
    /\ \E pq \in ApartPaths(R) :
           LET d == Dim - Len(pq[1])
               va == makeFlatViewOf(R, pq[1])
               vb == makeFlatViewOf(R, pq[2])
           IN  /\ bv = [first |-> va, second |-> vb, dimensionality |-> d]
               /\ fit = FvMakeBegin(R, va.begin_, va.end_, d)
               /\ cursor = [kind |-> "flat", it |-> FvMakeBegin(R, vb.begin_, vb.end_, d)]
    /\ pos = 0
    /\ lastOp = [op |-> "none"]
    /\ WalkOff

\* ++a or --a
ApartStepFirst(n) ==
    /\ fit' = FvAdvance(R, fit, n, bv.dimensionality)
    /\ lastOp' = [op |-> "none"]
    /\ UNCHANGED <<R, pos, phase, origin, trail, visited, rvisited, bv, cursor>>

\* ++b or --b
ApartStepSecond(n) ==
    /\ cursor' = [cursor EXCEPT !.it = FvAdvance(R, @, n, bv.dimensionality)]
    /\ lastOp' = [op |-> "none"]
    /\ UNCHANGED <<R, fit, pos, phase, origin, trail, visited, rvisited, bv>>

\* b - a, which is a.distance_to(b)
ApartDistance ==
    /\ lastOp' = [op |-> "distance",
                  res |-> FvDistanceTo(R, fit, cursor.it, bv.dimensionality)]
    /\ UNCHANGED <<R, fit, pos, phase, origin, trail, visited, rvisited, bv, cursor>>

ApartNext ==
    \/ \E n \in {-1, 1} : ApartStepFirst(n)
    \/ \E n \in {-1, 1} : ApartStepSecond(n)
    \/ ApartDistance

SpecApart == ApartInit /\ [][ApartNext]_vars

-----------------------------------------------------------------------------
(* Specification SpecLoop: the loops of increment(), decrement() and       *)
(* distance_to() of a nested FlatViewIterator run one pass per step.  fit  *)
(* is the iterator being moved (`tmp` inside distance_to), origin tells    *)
(* which while(1) loop it is in, phase where distance_to stands, cursor    *)
(* holds the locals of distance_to; trail and rvisited hold the children   *)
(* the loops build at each raw position.  The iterator is of dimension     *)
(* bv.d: the children of an iterator of dimensionality 2 are leaf          *)
(* iterators, whose ++ and -- have no loop; the children of a deeper one   *)
(* run the same loops one level down.                                      *)

LoopMaxNodes == 4

\* increment() up to its while(1) loop: the iterator, and whether the call
\* has returned ("none") or enters the loop ("increment").
FvIncrementEntry(x, it, d) ==
    IF FvValid(it, d)
    THEN LET ch == FvIncrement(x, it.child_, d - 1)
         IN  IF FvValid(ch, d - 1)
             THEN [it |-> [it EXCEPT !.child_ = ch], pc |-> "none"]
             ELSE [it |-> [it EXCEPT !.child_ = ch, !.current_ = RawNext(@)],
                   pc |-> "increment"]
    ELSE [it |-> it, pc |-> "increment"]

\* A pass of the loop of increment() that does not execute `++current_`.
FvIncrementPassStays(makeBegin, it, d) ==
    IF it.current_ = it.end_ THEN [it |-> it, pc |-> "none"]
    ELSE LET ch == makeBegin[it.current_.i]
         IN  IF FvValid(ch, d - 1)
             THEN [it |-> [it EXCEPT !.child_ = ch], pc |-> "none"]
             ELSE [it |-> [it EXCEPT !.child_ = ch], pc |-> "increment"]

\* One pass of the while(1) loop of increment().  makeBegin[k] is what
\* makeBegin(begin(*current_), end(*current_)) returns when current_ stands at
\* the raw position k.
FvIncrementPass(makeBegin, it, d) ==
    IF it.current_ = it.end_ THEN [it |-> it, pc |-> "none"]
    ELSE LET ch == makeBegin[it.current_.i]
         IN  IF FvValid(ch, d - 1)
             THEN [it |-> [it EXCEPT !.child_ = ch], pc |-> "none"]
             ELSE [it |-> [it EXCEPT !.child_ = ch, !.current_ = RawNext(@)],
                   pc |-> "increment"]

\* decrement() up to its while(1) loop.
FvDecrementEntry(x, it, d) ==
    IF FvValid(it, d)
    THEN LET ch == FvDecrement(x, it.child_, d - 1)
         IN  IF FvValid(ch, d - 1)
             THEN [it |-> [it EXCEPT !.child_ = ch], pc |-> "none"]
             ELSE [it |-> [it EXCEPT !.child_ = ch], pc |-> "decrement"]
    ELSE [it |-> it, pc |-> "decrement"]

\* One pass of the while(1) loop of decrement().  makeLast[k] is what
\* makeEnd(begin(*current_), end(*current_)) is after `--child_`, when
\* current_ stands at the raw position k.
FvDecrementPass(makeLast, it, d) ==
    IF it.current_ = it.begin_ THEN [it |-> it, pc |-> "none"]
    ELSE LET cur == RawPrev(it.current_)
             ch  == makeLast[cur.i]
         IN  [it |-> [it EXCEPT !.child_ = ch, !.current_ = cur],
              pc |-> IF FvValid(ch, d - 1) THEN "none" ELSE "decrement"]

\* The children the loops build over the subranges of a view of
\* dimensionality d, by raw position: makeBegin of each, and makeEnd of each
\* stepped back once.
LoopMakeBegin(x, view, d) ==
    [k \in view.begin_.i..(view.end_.i - 1) |->
        FvMakeBegin(x, RawBeginOf(x, [c |-> view.begin_.c, i |-> k]),
                    RawEndOf(x, [c |-> view.begin_.c, i |-> k]), d - 1)]
LoopMakeLast(x, view, d) ==
    [k \in view.begin_.i..(view.end_.i - 1) |->
        FvDecrement(x,
            FvMakeEnd(x, RawBeginOf(x, [c |-> view.begin_.c, i |-> k]),
                      RawEndOf(x, [c |-> view.begin_.c, i |-> k]), d - 1),
            d - 1)]

\* The views the client iterates: R itself, and each subrange of R that is
\* a range of ranges.
LoopViews ==
    {[view |-> makeFlatView(R), d |-> Dim]}
        \cup { [view |-> makeFlatViewOf(R, path), d |-> Dim - Len(path)] :
               path \in { q \in ObjPaths(R, Dim) : Len(q) >= 1 /\ Dim - Len(q) >= 2 } }

\* No call of distance_to is running.
LoopNoLocals == [kind |-> "none"]

LoopInit ==
    /\ R \in Ranges(LoopMaxNodes)
    /\ bv \in LoopViews
    /\ fit = FlatBeginOf(R, bv.view, bv.d)
    /\ phase = "idle"
    /\ origin = "none"
    /\ cursor = LoopNoLocals
    /\ lastOp = [op |-> "none"]
    /\ pos = 0
    /\ trail = LoopMakeBegin(R, bv.view, bv.d)
    /\ rvisited = LoopMakeLast(R, bv.view, bv.d)
    /\ visited = <<>>

\* ++it: the call, up to the loop
LoopIncrement ==
    /\ phase = "idle"
    /\ origin = "none"
    /\ LET e == FvIncrementEntry(R, fit, bv.d)
       IN  /\ fit' = e.it
           /\ origin' = e.pc
    /\ lastOp' = [op |-> "++", from |-> fit]
    /\ UNCHANGED <<R, phase, trail, visited, rvisited, pos, bv, cursor>>

\* --it: the call, up to the loop
LoopDecrement ==
    /\ phase = "idle"
    /\ origin = "none"
    /\ LET e == FvDecrementEntry(R, fit, bv.d)
       IN  /\ fit' = e.it
           /\ origin' = e.pc
    /\ lastOp' = [op |-> "--", from |-> fit]
    /\ UNCHANGED <<R, phase, trail, visited, rvisited, pos, bv, cursor>>

\* A pass of the loop of increment(), on the client's iterator or on tmp
LoopIncrementPass ==
    /\ origin = "increment"
    /\ LET e == FvIncrementPass(trail, fit, bv.d)
       IN  /\ fit' = e.it
           /\ origin' = e.pc
    /\ UNCHANGED <<R, phase, trail, visited, rvisited, pos, bv, cursor, lastOp>>

\* A pass of the loop of decrement(), on the client's iterator or on tmp
LoopDecrementPass ==
    /\ origin = "decrement"
    /\ LET e == FvDecrementPass(rvisited, fit, bv.d)
       IN  /\ fit' = e.it
           /\ origin' = e.pc
    /\ UNCHANGED <<R, phase, trail, visited, rvisited, pos, bv, cursor, lastOp>>

\* The iterators the client measures the distance to.
LoopOthers ==
    {FlatBeginOf(R, bv.view, bv.d), FlatEndOf(R, bv.view, bv.d),
     FvDecrement(R, FlatBeginOf(R, bv.view, bv.d), bv.d)}

\* it.distance_to(other): `if ((*this) == other) return 0;`, then
\* `result = 0; tmp = (*this);`
LoopDistance(other) ==
    /\ phase = "idle"
    /\ origin = "none"
    /\ IF FvEqual(fit, other, bv.d)
       THEN /\ lastOp' = [op |-> "distance", res |-> [distance |-> 0]]
            /\ UNCHANGED <<phase, cursor>>
       ELSE /\ phase' = "forward"
            /\ cursor' = [kind |-> "distance_to", self |-> fit, other |-> other,
                          result |-> 0]
            /\ lastOp' = [op |-> "distance"]
    /\ UNCHANGED <<R, fit, origin, trail, visited, rvisited, pos, bv>>

\* `while (tmp.valid()) { ++tmp;`, or the end of the forward search and
\* `result = 0; tmp = (*this);`
LoopForward ==
    /\ phase = "forward"
    /\ origin = "none"
    /\ IF FvValid(fit, bv.d)
       THEN LET e == FvIncrementEntry(R, fit, bv.d)
            IN  /\ fit' = e.it
                /\ origin' = e.pc
                /\ phase' = "forward_count"
                /\ UNCHANGED cursor
       ELSE /\ fit' = cursor.self
            /\ cursor' = [cursor EXCEPT !.result = 0]
            /\ phase' = "backward"
            /\ UNCHANGED origin
    /\ UNCHANGED <<R, trail, visited, rvisited, pos, bv, lastOp>>

\* `++result; if (tmp == other) return result; }`
LoopForwardCount ==
    /\ phase = "forward_count"
    /\ origin = "none"
    /\ IF FvEqual(fit, cursor.other, bv.d)
       THEN /\ lastOp' = [op |-> "distance", res |-> [distance |-> cursor.result + 1]]
            /\ fit' = cursor.self
            /\ cursor' = LoopNoLocals
            /\ phase' = "idle"
       ELSE /\ cursor' = [cursor EXCEPT !.result = @ + 1]
            /\ phase' = "forward"
            /\ UNCHANGED <<fit, lastOp>>
    /\ UNCHANGED <<R, origin, trail, visited, rvisited, pos, bv>>

\* `do { --tmp;`
LoopBackward ==
    /\ phase = "backward"
    /\ origin = "none"
    /\ LET e == FvDecrementEntry(R, fit, bv.d)
       IN  /\ fit' = e.it
           /\ origin' = e.pc
    /\ phase' = "backward_count"
    /\ UNCHANGED <<R, trail, visited, rvisited, pos, bv, cursor, lastOp>>

\* `--result; if (tmp == other) return result; } while (tmp.valid());` and
\* the throw after the loop
LoopBackwardCount ==
    /\ phase = "backward_count"
    /\ origin = "none"
    /\ IF FvEqual(fit, cursor.other, bv.d)
       THEN /\ lastOp' = [op |-> "distance", res |-> [distance |-> cursor.result - 1]]
            /\ fit' = cursor.self
            /\ cursor' = LoopNoLocals
            /\ phase' = "idle"
       ELSE IF FvValid(fit, bv.d)
       THEN /\ cursor' = [cursor EXCEPT !.result = @ - 1]
            /\ phase' = "backward"
            /\ UNCHANGED <<fit, lastOp>>
       ELSE /\ lastOp' = [op |-> "distance", res |-> UnrelatedRanges]
            /\ fit' = cursor.self
            /\ cursor' = LoopNoLocals
            /\ phase' = "idle"
    /\ UNCHANGED <<R, origin, trail, visited, rvisited, pos, bv>>

\* The steps of a call that is running.
LoopRun ==
    \/ LoopIncrementPass
    \/ LoopDecrementPass
    \/ LoopForward
    \/ LoopForwardCount
    \/ LoopBackward
    \/ LoopBackwardCount

LoopNext ==
    \/ LoopIncrement
    \/ LoopDecrement
    \/ \E other \in LoopOthers : LoopDistance(other)
    \/ LoopIncrementPass
    \/ LoopDecrementPass
    \/ LoopForward
    \/ LoopForwardCount
    \/ LoopBackward
    \/ LoopBackwardCount

\* A call that has started goes on running: the code is sequential, and
\* nothing but the call itself can stop the thread that runs it.
SpecLoop == LoopInit /\ [][LoopNext]_vars /\ WF_vars(LoopRun)

-----------------------------------------------------------------------------
(* Specification SpecCompare: a client makes FlatViews of two ranges of     *)
(* vector<vector<int>> and compares the views with ==, !=, <, >, <=, >=.   *)
(* R holds the two ranges side by side; bv holds the two views.            *)

CompareInit ==
    /\ \E A \in ValuedRanges(Dim - 1, CmpMaxNodes, CmpValues),
          B \in ValuedRanges(Dim - 1, CmpMaxNodes, CmpValues) : R = <<A, B>>
    /\ bv = [first |-> makeFlatViewOf(R, <<0>>), second |-> makeFlatViewOf(R, <<1>>),
             dimensionality |-> Dim - 1]
    /\ fit = FvDefault(Dim)
    /\ cursor = [kind |-> "none"]
    /\ pos = 0
    /\ lastOp = [op |-> "none"]
    /\ WalkOff

\* The client records the outcome of a comparison.
Compared(op, res) ==
    /\ lastOp' = [op |-> op, res |-> res]
    /\ UNCHANGED <<R, fit, pos, phase, origin, trail, visited, rvisited, bv, cursor>>

\* fv1 == fv2, fv1 != fv2, fv1 < fv2, fv1 > fv2, fv1 <= fv2, fv1 >= fv2
CompareEqual     == Compared("==", FlatViewEqual(R, bv.first, bv.second, bv.dimensionality))
CompareNotEqual  == Compared("!=", FlatViewNotEqual(R, bv.first, bv.second, bv.dimensionality))
CompareLess      == Compared("<", FlatViewLess(R, bv.first, bv.second, bv.dimensionality))
CompareGreater   == Compared(">", FlatViewGreater(R, bv.first, bv.second, bv.dimensionality))
CompareLessEq    == Compared("<=", FlatViewLessEq(R, bv.first, bv.second, bv.dimensionality))
CompareGreaterEq == Compared(">=", FlatViewGreaterEq(R, bv.first, bv.second, bv.dimensionality))

CompareNext ==
    \/ CompareEqual
    \/ CompareNotEqual
    \/ CompareLess
    \/ CompareGreater
    \/ CompareLessEq
    \/ CompareGreaterEq

SpecCompare == CompareInit /\ [][CompareNext]_vars

-----------------------------------------------------------------------------
(* Properties *)

\* C1: iterating FlatView(R) from begin() to end() visits exactly
\* scalarSize(R) elements: every leaf physically present, once, in depth-first
\* left-to-right order, empty subranges at any depth being skipped.
C1_FlatteningComplete ==
    origin = "begin" =>
        /\ Len(visited) <= Len(Leaves(R))
        /\ visited = SubSeq(Leaves(R), 1, Len(visited))
        /\ (Len(visited) = Len(Leaves(R)) => FvEqual(fit, FlatEnd(R), Dim) \/ phase # "fwd")
        /\ (phase # "fwd" =>
               /\ visited = Leaves(R)
               /\ Len(visited) = scalarSize(R, Dim))

\* A finished forward walk that skipped an empty subrange at depth 1 and one
\* at depth 2 before reaching its leaves.
C1_Witness ==
    /\ origin = "begin"
    /\ phase = "done"
    /\ Len(visited) >= 2
    /\ Len(R) >= 2
    /\ R[1] = <<>>
    /\ R[2] # <<>>
    /\ R[2][1] = <<>>

\* C5: walking forward from any iterator to end() and then backward the same
\* number of steps gives an iterator equal to the starting one, with the same
\* dereference; the backward traversal is the forward one reversed.
C5_RoundTrip ==
    /\ (phase \in {"bwd", "done"} /\ rvisited # <<>> =>
           LET k == Len(trail) - Len(rvisited) + 1
           IN  /\ FvEqual(fit, trail[k], Dim)
               /\ rvisited[Len(rvisited)] = visited[k])
    /\ (phase = "done" => rvisited = Reverse(visited))

\* A round trip over a jagged range with empty subranges, back at begin().
C5_Witness ==
    /\ phase = "done"
    /\ origin = "begin"
    /\ Len(rvisited) >= 3
    /\ \E k \in 1..Len(R) : R[k] = <<>>
    /\ FvEqual(fit, FlatBegin(R), Dim)


\* The same shape: the same lengths at every depth, whatever the leaves hold.
SameShape(x, y) == Label(x, Dim, 0) = Label(y, Dim, 0)

\* C6: a write through a FlatView iterator or through fv[n] changes exactly
\* the leaf at flattened position n, in place; every other element and the
\* shape of the underlying structure stay as they were.
C6_WriteInPlace ==
    [][ /\ (lastOp'.op = "write" /\ lastOp'.res # OutOfBounds =>
               /\ lastOp'.n \in 0..(Len(Leaves(R)) - 1)
               /\ SameShape(R', R)
               /\ \A k \in 1..Len(Leaves(R)) :
                      ValueAt(R', Leaves(R)[k]) =
                          IF k = lastOp'.n + 1 THEN lastOp'.v
                          ELSE ValueAt(R, Leaves(R)[k]))
        /\ (~(lastOp'.op = "write" /\ lastOp'.res # OutOfBounds) => R' = R)
      ]_vars

\* A write through fv[n] that landed on a leaf behind an empty subrange.
C6_Witness ==
    /\ lastOp.op = "write"
    /\ lastOp.res # OutOfBounds
    /\ lastOp.n >= 1
    /\ Len(R) >= 2
    /\ R[1] = <<>>
    /\ ValueAt(R, Leaves(R)[lastOp.n + 1]) = 7
    /\ pos # lastOp.n

\* C7: dereferencing a FlatViewIterator fails with OutOfBounds in the
\* before-first and past-last states and returns the current leaf otherwise.
C7_DerefOutOfBounds ==
    lastOp.op = "deref" =>
        IF pos = -1 \/ pos = Len(Leaves(R))
        THEN lastOp.res = OutOfBounds
        ELSE lastOp.res = Leaves(R)[pos + 1]

\* A failed dereference one before the first leaf of a non-empty view.
C7_Witness ==
    /\ lastOp.op = "deref"
    /\ lastOp.res = OutOfBounds
    /\ pos = -1
    /\ Len(Leaves(R)) >= 2


\* The coordinates lie within the apparent bounds of the view at every level.
WithinApparent(v, coords) ==
    \A j \in 1..Len(coords) : coords[j] \in 0..(v.bounds_[j] - 1)

\* The coordinates of the leaves physically present in x.
LeafCoords(x) == { p \in ObjPaths(x, Dim) : Len(p) = Dim }

\* C2: reading a coordinate within the apparent bounds B of a BoxedView
\* returns the underlying element when it physically exists and the default
\* value otherwise, also when a subrange on the path is absent.
C2_ReadFillsDefault ==
    lastOp.op = "read" =>
        /\ WithinApparent(bv, lastOp.coords)
        /\ lastOp.res = IF Exists(R, lastOp.coords) THEN At(R, lastOp.coords)
                        ELSE bv.defaultValue_

\* A read that gave the default value below a subrange that is absent from a
\* row that is present.
C2_Witness ==
    /\ lastOp.op = "read"
    /\ lastOp.res = bv.defaultValue_
    /\ Exists(R, SubSeq(lastOp.coords, 1, 1))
    /\ ~Exists(R, SubSeq(lastOp.coords, 1, 2))
    /\ Leaves(R) # <<>>

\* C3: assigning through a coordinate within the apparent bounds writes the
\* underlying element when it physically exists and is otherwise a silent
\* no-op; nothing else of the range changes, nor does the default value.
C3_AssignThroughOrNoOp ==
    [][ lastOp'.op = "assign" =>
            /\ WithinApparent(bv, lastOp'.coords)
            /\ bv' = bv
            /\ SameShape(R', R)
            /\ \A p \in LeafCoords(R) :
                   At(R', p) = IF p = lastOp'.coords THEN lastOp'.v ELSE At(R, p)
      ]_vars

\* An assignment to a coordinate that is not physically there, in a range
\* that has leaves.
C3_Witness ==
    /\ lastOp.op = "assign"
    /\ ~Exists(R, lastOp.coords)
    /\ Leaves(R) # <<>>
    /\ \A p \in LeafCoords(R) : At(R, p) # lastOp.v

\* C4: at every level, [] and * succeed for every logical index in
\* [0, apparent bound) and fail with OutOfBounds for every other index, also
\* when the element addressed is physically present.
C4_ApparentBoundsDecide ==
    lastOp.op \in {"[]", "*"} =>
        LET k == Len(lastOp.coords)
        IN  (lastOp.res = OutOfBounds) <=>
                ~(lastOp.coords[k] \in 0..(bv.bounds_[k] - 1))

\* An OutOfBounds on an element that is physically present.
C4_Witness ==
    /\ lastOp.op \in {"[]", "*"}
    /\ lastOp.res = OutOfBounds
    /\ Len(lastOp.coords) >= 2
    /\ Exists(R, lastOp.coords)

\* C8: bounds(R) has dimensionality(R) entries; the first is the length of
\* the range itself, and entry i is the largest length of the subranges
\* physically present at depth i, 0 when there are none.
C8_BoundsAreMaxima ==
    lastOp.op = "bounds" =>
        LET d == Dim - Len(lastOp.arg)
            x == At(R, lastOp.arg)
        IN  /\ ~lastOp.threw
            /\ Len(lastOp.res) = d
            /\ (d >= 1 => lastOp.res[1] = Len(x))
            /\ \A i \in 2..d : lastOp.res[i] = MaxLenAt(x, i - 1)

\* The bounds of a whole jagged range whose largest subrange is not the first.
C8_Witness ==
    /\ lastOp.op = "bounds"
    /\ lastOp.arg = <<>>
    /\ Len(R) >= 2
    /\ lastOp.res[2] > Len(R[1])

\* The number of leaves physically present in a value of dimensionality d.
NumLeaves(x, d) == IF d = 0 THEN 1 ELSE Len(LeafRefs(x, d, <<>>))

\* C9: scalarSize is the number of leaves physically present: 1 for a
\* scalar, 0 for an empty range, the sum over the children otherwise.
C9_ScalarSizeCountsLeaves ==
    lastOp.op = "scalarSize" =>
        LET d == Dim - Len(lastOp.arg)
            x == At(R, lastOp.arg)
        IN  /\ lastOp.res = NumLeaves(x, d)
            /\ (d = 0 => lastOp.res = 1)
            /\ (d >= 1 /\ x = <<>> => lastOp.res = 0)

\* The scalar size of a whole jagged range with an empty subrange.
C9_Witness ==
    /\ lastOp.op = "scalarSize"
    /\ lastOp.arg = <<>>
    /\ lastOp.res >= 2
    /\ \E k \in 1..Len(R) : R[k] = <<>>
    /\ lastOp.res < Len(R) * MaxLenAt(R, 1) * MaxLenAt(R, 2)

\* C10: makeBoxedView with empty apparent bounds gives a view whose apparent
\* bounds are bounds(R), the natural bounding box of R.
C10_EmptyBoundsAreNatural ==
    lastOp.op = "make" /\ lastOp.arg = <<>> =>
        /\ bv.made
        /\ lastOp.res = bv
        /\ bv.bounds_ = NaturalBounds(R)

\* A view built with natural bounds over a jagged range: its bounding box has
\* more cells than the range has leaves.
C10_Witness ==
    /\ lastOp.op = "make"
    /\ lastOp.arg = <<>>
    /\ bv.made
    /\ Leaves(R) # <<>>
    /\ Len(Leaves(R)) < bv.bounds_[1] * bv.bounds_[2] * bv.bounds_[3]

\* C11: makeBoxedView fails with BoundsMismatch exactly when a non-empty
\* bounds list has a length other than the dimensionality of the range, and
\* builds the view, with the bounds given, when the length equals it.
C11_WrongLengthRefused ==
    lastOp.op = "make" /\ lastOp.arg # <<>> =>
        IF Len(lastOp.arg) = Dim
        THEN /\ bv.made
             /\ lastOp.res = bv
             /\ bv.bounds_ = lastOp.arg
        ELSE /\ lastOp.res = BoundsMismatch
             /\ ~bv.made

\* A list one bound too long, refused over a range that has leaves.
C11_Witness ==
    /\ lastOp.op = "make"
    /\ Len(lastOp.arg) = Dim + 1
    /\ lastOp.res = BoundsMismatch
    /\ Leaves(R) # <<>>

\* C12: after any sequence of ++, --, += and -= that did not throw, the raw
\* position of a BoxedViewIterator over a random access range lies neither
\* before the physical begin nor after the physical end of the storage.
C12_RawPositionClamped ==
    cursor.kind = "iter" => RawWithinStorage(cursor.base, cursor.it)

\* C15: ++, --, += n and -= n on a BoxedViewIterator throw OutOfBounds exactly
\* when the index they aim at is greater than the apparent bound or less than
\* -1; otherwise the iterator is at that index afterwards.
C15_AdvanceOutOfBounds ==
    [][ lastOp'.op \in {"++", "--", "+=", "-="} /\ cursor.kind = "iter" =>
            LET delta == CASE lastOp'.op = "++" -> 1
                           [] lastOp'.op = "--" -> -1
                           [] lastOp'.op = "+=" -> lastOp'.n
                           [] lastOp'.op = "-=" -> -lastOp'.n
                target == pos + delta
                bound == bv.bounds_[Len(cursor.coords) + 1]
            IN  /\ lastOp'.threw <=> (target > bound \/ target < -1)
                /\ ToDiff(cursor.it.index_) = pos
                /\ (~lastOp'.threw => ToDiff(cursor'.it.index_) = target)
                /\ (lastOp'.threw => cursor'.it.index_ = cursor.it.index_)
      ]_vars

\* A += that threw from the fill region of a subrange shorter than its bound.
C15_Witness ==
    /\ lastOp.op = "+="
    /\ lastOp.threw
    /\ cursor.kind = "iter"
    /\ cursor.coords # <<>>
    /\ pos > cursor.it.physicalBound_
    /\ pos + lastOp.n = bv.bounds_[Len(cursor.coords) + 1] + 1

\* C13: at every level k of a BoxedView, and for every position that
\* addresses a subrange of that level, the distance from begin to end is the
\* apparent bound B[k], whether the subrange is physically longer, shorter
\* or absent.
C13_ExtentIsApparentBound ==
    lastOp.op = "extent" =>
        lastOp.res = bv.bounds_[Len(lastOp.coords) + 1]

\* The extent of a subrange that is physically absent, below the top level.
C13_Witness ==
    /\ lastOp.op = "extent"
    /\ lastOp.coords # <<>>
    /\ ~Exists(R, lastOp.coords)
    /\ lastOp.res > 0
    /\ Leaves(R) # <<>>

RECURSIVE BoxCells(_)
\* The coordinates of the cells of a box with bounds B, in row-major order.
BoxCells(B) ==
    IF B = <<>> THEN << <<>> >>
    ELSE LET rest == BoxCells(Tail(B))
             RECURSIVE Rows(_)
             Rows(i) == IF i >= Head(B) THEN <<>>
                        ELSE [k \in 1..Len(rest) |-> <<i>> \o rest[k]] \o Rows(i + 1)
         IN  Rows(0)

RECURSIVE Product(_)
Product(B) == IF B = <<>> THEN 1 ELSE Head(B) * Product(Tail(B))

\* What the cell `coords` of the view v holds: the element of the underlying
\* subrange when it is physically there, the default value when not.
CellValue(x, v, coords) ==
    IF Exists(At(x, v.begin_.c), coords) THEN At(x, v.begin_.c \o coords)
    ELSE v.defaultValue_

\* C14: a FlatView over a BoxedView with bounds B yields exactly product(B)
\* elements, in row-major order over the box, each one the physical element
\* where it exists and the default value where it does not; the walk never
\* throws.
C14_FlatOverBoxedIsDense ==
    LET cells == BoxCells(ViewBounds(bv))
    IN  /\ phase # "threw"
        /\ Len(visited) <= Len(cells)
        /\ \A k \in 1..Len(visited) : visited[k] = CellValue(R, bv, cells[k])
        /\ (phase = "done" =>
               /\ Len(visited) = Product(ViewBounds(bv))
               /\ Len(cells) = Product(ViewBounds(bv)))

\* A finished walk over a view of dimensionality 2 that read a physical
\* element, a fill cell in a row physically there, and a row physically
\* absent.
C14_Witness ==
    /\ phase = "done"
    /\ ViewDim(bv) = 2
    /\ ViewBounds(bv) = <<2, 2>>
    /\ Len(At(R, bv.begin_.c)) = 1
    /\ Len(At(R, bv.begin_.c)[1]) = 1
    /\ Len(visited) = 4
    /\ visited[1] # bv.defaultValue_
    /\ visited[2] = bv.defaultValue_

\* The two states of a FlatViewIterator outside the leaves: past-last is
\* end(); before-first is not valid and stands at the raw start (told from
\* end() whenever the range has an element).
PastLast(x, it) == FvEqual(it, FlatEnd(x), Dim)
BeforeFirst(x, it) ==
    ~FvValid(it, Dim) /\ it.current_ = it.begin_ /\ ~PastLast(x, it)

\* C16: incrementing a FlatViewIterator in the past-last state, and
\* decrementing one in the before-first state, raises OutOfBounds.
C16_StepBeyondRangeThrows ==
    /\ (lastOp.op = "++" /\ PastLast(R, lastOp.from) => lastOp.threw)
    /\ (lastOp.op = "--" /\ BeforeFirst(R, lastOp.from) => lastOp.threw)

\* C17: in a FlatView with at least one leaf, ++ from the before-first state
\* gives an iterator equal to begin(), on the first leaf, and -- from the
\* past-last state gives an iterator on the last leaf.
C17_ReentryFromOutside ==
    Leaves(R) # <<>> =>
        /\ (lastOp.op = "++" /\ BeforeFirst(R, lastOp.from) =>
               /\ FvEqual(fit, FlatBegin(R), Dim)
               /\ FvDereference(fit, Dim) = Leaves(R)[1])
        /\ (lastOp.op = "--" /\ PastLast(R, lastOp.from) =>
               FvDereference(fit, Dim) = Leaves(R)[Len(Leaves(R))])

\* ++ from before-first in a range that starts with an empty subrange at
\* depth 1 and ends with an empty subrange.
C17_Witness ==
    /\ lastOp.op = "++"
    /\ BeforeFirst(R, lastOp.from)
    /\ Len(Leaves(R)) >= 2
    /\ R[1] = <<>>
    /\ R[Len(R)] = <<>>
    /\ FvDereference(fit, Dim) = Leaves(R)[1]

\* C18: begin() is on the first leaf in depth-first order, and
\* begin() == end() exactly when the range has no leaf.
C18_BeginOnFirstLeaf ==
    lastOp.op = "begin" =>
        /\ (FvEqual(fit, FlatEnd(R), Dim) <=> Leaves(R) = <<>>)
        /\ (Leaves(R) # <<>> => FvDereference(fit, Dim) = Leaves(R)[1])

\* begin() of a range whose first leaf comes after an empty subrange at depth
\* 1 and an empty subrange at depth 2.
C18_Witness ==
    /\ lastOp.op = "begin"
    /\ Len(R) >= 2
    /\ R[1] = <<>>
    /\ R[2] # <<>>
    /\ R[2][1] = <<>>
    /\ Leaves(R) # <<>>
    /\ FvDereference(fit, Dim) = Leaves(R)[1]

\* C20: size() is the number of leaves, empty() tells whether that number is
\* 0, and a call that finds the size cached returns the cached value.
C20_SizeCountsLeaves ==
    /\ (lastOp.op = "size" =>
           /\ ~lastOp.threw
           /\ lastOp.res = Len(Leaves(R))
           /\ (lastOp.before # NO_VALUE => lastOp.res = lastOp.before))
    /\ (lastOp.op = "empty" =>
           /\ ~lastOp.threw
           /\ lastOp.res = (Len(Leaves(R)) = 0))
    /\ bv.cachedSize_ \in {NO_VALUE, Len(Leaves(R))}

\* A second size() on a view over a range that has elements and no leaf.
C20_Witness ==
    /\ lastOp.op = "size"
    /\ lastOp.before # NO_VALUE
    /\ lastOp.res = 0
    /\ Len(R) >= 1

\* C19: the distance between two FlatViewIterators of different underlying
\* ranges is never a number: distance_to raises the unrelated-range error.
C19_UnrelatedNeverMeasured ==
    lastOp.op = "distance" => lastOp.res = UnrelatedRanges

\* The values of the leaves of a range of dimensionality Dim - 1, depth first.
RECURSIVE Flattened(_, _)
Flattened(x, d) ==
    IF d = 0 THEN <<x>>
    ELSE LET RECURSIVE Cat(_)
             Cat(k) == IF k > Len(x) THEN <<>>
                       ELSE Flattened(x[k], d - 1) \o Cat(k + 1)
         IN  Cat(1)

RECURSIVE LexLess(_, _)
\* s comes before t in lexicographic order.
LexLess(s, t) ==
    IF s = <<>> THEN t # <<>>
    ELSE IF t = <<>> THEN FALSE
    ELSE IF Head(s) # Head(t) THEN Head(s) < Head(t)
    ELSE LexLess(Tail(s), Tail(t))

\* C21: two FlatViews are equal exactly when their flattened leaf sequences
\* are, however the leaves lie in the subranges, and <, <=, >, >= order the
\* views lexicographically by those sequences.
C21_ViewsCompareByLeaves ==
    LET s == Flattened(R[1], Dim - 1)
        t == Flattened(R[2], Dim - 1)
    IN  /\ (lastOp.op = "==" => lastOp.res = (s = t))
        /\ (lastOp.op = "!=" => lastOp.res = (s # t))
        /\ (lastOp.op = "<"  => lastOp.res = LexLess(s, t))
        /\ (lastOp.op = ">"  => lastOp.res = LexLess(t, s))
        /\ (lastOp.op = "<=" => lastOp.res = ~LexLess(t, s))
        /\ (lastOp.op = ">=" => lastOp.res = ~LexLess(s, t))

\* Two views found equal over ranges that hold the same leaves in different
\* subranges.
C21_Witness ==
    /\ lastOp.op = "=="
    /\ lastOp.res
    /\ R[1] # R[2]
    /\ Len(Flattened(R[1], Dim - 1)) = 2
    /\ Len(R[1]) # Len(R[2])

\* The step is base[n], or *it with it at index n, n being at or beyond the
\* apparent bound of its level, on an element physically there.
CroppedSubscript ==
    /\ lastOp'.op \in {"[]", "*"}
    /\ LET k == Len(lastOp'.coords)
       IN  /\ lastOp'.coords[k] >= bv.bounds_[k]
           /\ Exists(R, lastOp'.coords)

\* C22 as stated: writing to a coordinate beyond the apparent bound of its
\* level but physically present raises no error and leaves R unchanged.
C22_CroppedWriteSilent ==
    [][CroppedSubscript => lastOp'.res # OutOfBounds /\ R' = R]_vars

\* C22: writing to a coordinate beyond the apparent bound of its level but
\* physically present raises OutOfBounds at the subscript, before any proxy
\* exists to assign through, and leaves R unchanged.
C22_CroppedWriteThrows ==
    [][CroppedSubscript =>
           /\ lastOp'.res = OutOfBounds
           /\ cursor'.kind = "thrown"
           /\ R' = R]_vars

\* bv[n] threw for a row physically there, n being the apparent row bound.
C22_Witness ==
    /\ lastOp.op = "[]"
    /\ Len(lastOp.coords) = 1
    /\ lastOp.coords[1] = bv.bounds_[1]
    /\ lastOp.coords[1] < Len(R)
    /\ lastOp.res = OutOfBounds
    /\ cursor.kind = "thrown"

\* x, of dimensionality d, is jagged: at some depth two of its subranges
\* have different lengths.
Jagged(x, d) ==
    \E k \in 1..(d - 1) : \E y, z \in SubrangesAt(x, k) : Len(y) # Len(z)

\* C23 as stated: scalarSize(R) differs from the product of bounds(R)
\* exactly when R is jagged.
C23_DifferIffJagged ==
    lastOp.op = "both" =>
        ((lastOp.size # Product(lastOp.bounds))
             <=> Jagged(At(R, lastOp.arg), Dim - Len(lastOp.arg)))

\* C23: scalarSize(R) differs from the product of bounds(R) exactly when R
\* is jagged and no bound is 0; for a non-jagged R, and for a jagged R with
\* a bound of 0, the two are equal.
C23_DifferIffJaggedWithLeaves ==
    lastOp.op = "both" =>
        /\ ((lastOp.size # Product(lastOp.bounds))
                <=> /\ Jagged(At(R, lastOp.arg), Dim - Len(lastOp.arg))
                    /\ \A j \in 1..Len(lastOp.bounds) : lastOp.bounds[j] # 0)
        /\ lastOp.size <= Product(lastOp.bounds)

\* The two results differ on a whole jagged range with leaves.
C23_Witness ==
    /\ lastOp.op = "both"
    /\ lastOp.arg = <<>>
    /\ Jagged(R, Dim)
    /\ lastOp.size >= 2
    /\ lastOp.size < Product(lastOp.bounds)

-----------------------------------------------------------------------------
(* C24 *)

\* The number of bounds a value of height h yields when its own computation
\* does not throw.
BoundsLength(T, h) ==
    IF IsScalar(T, h, "bare") THEN 0
    ELSE IF IsScalar(T, h - 1, "bare") THEN 1
    ELSE DimensionalityRange(T, h - 1)

RECURSIVE ChildMismatch(_, _, _)
\* The multilevel computation on x, of height h, reaches a child subrange
\* whose bounds do not have one entry less than the dimensionality of the
\* range that holds it.
ChildMismatch(T, x, h) ==
    /\ ~IsScalar(T, h, "bare")
    /\ ~IsScalar(T, h - 1, "bare")
    /\ \E k \in 1..Len(x) :
           \/ ChildMismatch(T, x[k], h - 1)
           \/ BoundsLength(T, h - 1) # DimensionalityRange(T, h - 1) - 1

\* C24: bounds fails with ShapeMismatch, and returns nothing else, whenever
\* the bounds computed for some child subrange have a length other than
\* dimensionality - 1, and it never fails otherwise: it then returns a full
\* vector of bounds.
C24_ShapeMismatchIffChildLengthDiffers ==
    lastOp.op = "bounds" =>
        LET h == Dim - Len(lastOp.arg)
        IN  IF ChildMismatch(lastOp.trait, At(R, lastOp.arg), h)
            THEN lastOp.res = ShapeMismatch
            ELSE /\ lastOp.res # ShapeMismatch
                 /\ Len(lastOp.res.bounds) = BoundsLength(lastOp.trait, h)

C24_Witness ==
    /\ lastOp.op = "bounds"
    /\ lastOp.arg = <<>>
    /\ lastOp.res = ShapeMismatch
    /\ Len(R) >= 2

-----------------------------------------------------------------------------
(* C25 *)

\* C25: bounds and scalarSize are read-only and total: every call returns a
\* result (a count; a vector of bounds or ShapeMismatch) and leaves every
\* element and every length of the underlying range as it was.
C25_ReadOnlyAndTotal ==
    [][lastOp'.op \in {"bounds", "scalarSize"} =>
          /\ R' = R
          /\ IF lastOp'.op = "scalarSize" THEN lastOp'.res \in Nat
             ELSE IF lastOp'.res = ShapeMismatch THEN TRUE
             ELSE \A j \in DOMAIN lastOp'.res.bounds : lastOp'.res.bounds[j] \in Nat]_vars

C25_Witness ==
    /\ lastOp.op = "scalarSize"
    /\ lastOp.arg = <<>>
    /\ lastOp.res >= 3
    /\ bv.trait = NoCustomScalars

-----------------------------------------------------------------------------
(* C26 *)

\* The greatest of the heights in S, 0 when S is empty.
Greatest(S) == IF S = {} THEN 0 ELSE CHOOSE m \in S : \A k \in S : k <= m

\* C26: under a trait that classifies container types as scalars (in every
\* form), with c the height of the first classified type met going down from
\* a value of height h: the dimensionality of the value is h - c, the c levels
\* at and below the classified type being collapsed; bounds and scalarSize
\* measure the value down to the classified values and no further; a FlatView
\* yields the classified values whole, in order.
C26_ClassifiedValuesAreLeaves ==
    /\ lastOp.op \in {"dimensionality", "bounds", "scalarSize"}
       /\ Decayed(lastOp.trait) =>
           LET h == Dim - Len(lastOp.arg)
               x == At(R, lastOp.arg)
               c == Greatest(lastOp.trait.bare \cap 1..h)
           IN  /\ lastOp.op = "dimensionality" => lastOp.res = h - c
               /\ lastOp.op = "scalarSize" => lastOp.res = Len(Flattened(x, h - c))
               /\ lastOp.op = "bounds" =>
                      lastOp.res = [bounds |-> [j \in 1..(h - c) |-> MaxLenAt(x, j - 1)]]
    /\ lastOp.op = "flatten" /\ Decayed(lastOp.trait) =>
           LET h == Dim - Len(lastOp.arg)
               c == Greatest(lastOp.trait.bare \cap 1..(h - 1))
           IN  lastOp.res = Flattened(At(R, lastOp.arg), h - c)

C26_Witness ==
    /\ lastOp.op = "flatten"
    /\ lastOp.trait = [bare |-> {1}, ref |-> {1}]
    /\ lastOp.arg = <<>>
    /\ Len(lastOp.res) >= 2
    /\ \E k \in 1..Len(lastOp.res) : Len(lastOp.res[k]) >= 2

-----------------------------------------------------------------------------
(* C27 *)

\* The number of range levels of a type of height h above the first type the
\* trait classifies (asked about the reference type) going down from it.
LevelsAboveScalar(T, h) == h - Greatest(T.ref \cap 1..h)

\* C27: the dimensionality of a value is 0 when its type is a scalar (not a
\* range, or classified) and otherwise 1 + the dimensionality of its element
\* type; it is found in at most as many steps as the type has levels; the
\* dimensionality of an iterator pair is 1 + that of its element type.
C27_DimensionalityRecursion ==
    /\ lastOp.op = "dimensionality" =>
           LET h == Dim - Len(lastOp.arg)
           IN  /\ lastOp.res \in 0..h
               /\ lastOp.res = IF h = 0 \/ h \in lastOp.trait.ref THEN 0
                               ELSE 1 + LevelsAboveScalar(lastOp.trait, h - 1)
    /\ lastOp.op = "dimensionalityRange" =>
           LET h == Dim - Len(lastOp.arg)
           IN  /\ lastOp.res \in 1..h
               /\ lastOp.res = 1 + LevelsAboveScalar(lastOp.trait, h - 1)

C27_Witness ==
    /\ lastOp.op = "dimensionalityRange"
    /\ lastOp.arg = <<>>
    /\ lastOp.trait = NoCustomScalars
    /\ lastOp.res = Dim

-----------------------------------------------------------------------------
(* C28 *)

\* C28: for a BoxedViewIterator it at index i and every n with i + n within
\* [-1, bound], (it + n) - n == it; in particular (begin() - 1) + 1 == begin()
\* and (end() - 1) + 1 == end().
C28_AdvanceRoundTrip ==
    cursor.kind = "iter" /\ RawWithinStorage(cursor.base, cursor.it) =>
        \A n \in -(MaxBound + 1)..(MaxBound + 1) :
            LET it == cursor.it
                target == ToDiff(it.index_) + n
                there == BvAdvance(bv, it, n)
                back == IF there = OutOfBounds THEN OutOfBounds
                        ELSE BvAdvance(bv, there, -n)
            IN  target >= -1 /\ target <= ApparentBound(bv, it) =>
                    /\ there # OutOfBounds
                    /\ back # OutOfBounds
                    /\ BvEqual(bv, back, it)

-----------------------------------------------------------------------------
(* C30 *)

\* C30: for two BoxedViewIterators of the same level, a at logical index i
\* and b at logical index j, both within [-1, bound], b - a = j - i, whether
\* the level is cropped or filled.  Here a is the begin iterator of the level
\* (index 0) and b the iterator the client moved to index pos.
C30_DistanceIsIndexDifference ==
    cursor.kind = "iter" /\ ToDiff(cursor.it.index_) = pos =>
        /\ BvDistanceTo(cursor.base, cursor.it) = pos
        /\ BvDistanceTo(cursor.it, cursor.base) = -pos

-----------------------------------------------------------------------------
(* C29 *)

\* The three states of a nested FlatViewIterator: one before the first
\* (not valid, at begin_), on a scalar (valid, within [begin_, end_), its
\* child valid), one past the end (not valid, at end_).
BeforeTheFirst(it, d) == ~FvValid(it, d) /\ it.current_ = it.begin_
OnScalar(it, d) ==
    /\ FvValid(it, d)
    /\ it.current_.c = it.begin_.c
    /\ it.begin_.i <= it.current_.i
    /\ it.current_.i < it.end_.i
    /\ FvValid(it.child_, d - 1)
PastTheEnd(it, d) == ~FvValid(it, d) /\ it.current_ = it.end_

RECURSIVE InOneOfThreeStates(_, _)
\* The iterator `it` of dimensionality d > 1, and every nested iterator it
\* holds as child_, is in one of the three states.
InOneOfThreeStates(it, d) ==
    /\ BeforeTheFirst(it, d) \/ OnScalar(it, d) \/ PastTheEnd(it, d)
    /\ d > 2 => InOneOfThreeStates(it.child_, d - 1)

\* C29: whatever the client does with it, a nested FlatViewIterator is one
\* before the first, on a scalar or one past the end; it is never left not
\* valid at a position strictly between begin_ and end_.
C29_ThreeStates ==
    /\ InOneOfThreeStates(fit, Dim)
    /\ ~(/\ ~FvValid(fit, Dim)
         /\ fit.begin_.i < fit.current_.i
         /\ fit.current_.i < fit.end_.i)

\* One before the first, reached by -- across an empty first subrange, in a
\* range where the three states are distinct.
C29_Witness ==
    /\ lastOp.op = "--"
    /\ FvValid(lastOp.from, Dim)
    /\ BeforeTheFirst(fit, Dim)
    /\ fit.begin_ # fit.end_
    /\ R[1] = <<>>

-----------------------------------------------------------------------------
(* C31 *)

\* The outermost apparent bound of the view is smaller than the physical
\* length of R.
Cropped == bv.bounds_[1] < Len(R)

\* C31: for a view cropped in its outermost dimension to a, end() has index a
\* and its raw position walked back to position a; a -- from end() then
\* addresses the element at index a - 1 and equals begin() + (a - 1).
C31_CroppedEndWalkedBack ==
    [][/\ (lastOp'.op = "end" /\ Cropped =>
              /\ cursor'.it.index_ = bv.bounds_[1]
              /\ cursor'.it.current_ = [c |-> <<>>, i |-> bv.bounds_[1]])
       /\ (lastOp.op = "end" /\ lastOp'.op = "--" /\ Cropped /\ bv.bounds_[1] >= 1 =>
              /\ ~lastOp'.threw
              /\ cursor'.it.index_ = bv.bounds_[1] - 1
              /\ cursor'.it.current_ = [c |-> <<>>, i |-> bv.bounds_[1] - 1]
              /\ BvEqual(bv, cursor'.it,
                         BvAdvance(bv, BoxedBegin(bv), bv.bounds_[1] - 1)))
      ]_vars

\* One step back from the end of a view cropped to two rows.
C31_Witness ==
    /\ lastOp.op = "--"
    /\ Cropped
    /\ bv.bounds_[1] = 2
    /\ cursor.kind = "iter"
    /\ cursor.coords = <<>>
    /\ cursor.it = BvDecrement(bv, BoxedEnd(bv))

-----------------------------------------------------------------------------
(* C32 *)

\* The positions of the view of R a client can name without stepping: the
\* first, one before the first and one past the last.
Landmarks == {FlatBegin(R), FvDecrement(R, FlatBegin(R), Dim), FlatEnd(R)}

\* The number of increments that take a to b, negative when they take b to
\* a, for two positions of the view of R.
IncrementsBetween(a, b) ==
    LET n == NumLeaves(R, Dim) + 1
        ks == { k \in (-n)..n :
                   IF k >= 0 THEN FvEqual(FvAdvance(R, a, k, Dim), b, Dim)
                   ELSE FvEqual(FvAdvance(R, b, -k, Dim), a, Dim) }
    IN  CHOOSE k \in ks : \A j \in ks : (IF k < 0 THEN -k ELSE k) <= (IF j < 0 THEN -j ELSE j)

\* C32: for the iterator a the client holds and every b among the first
\* position, the one before the first and the one past the last of the same
\* view, b - a and a - b are defined, b - a = -(a - b), and b - a is the
\* number of increments that take a to b.
C32_DistanceWithinOneView ==
    \A b \in Landmarks :
        LET ab == FvDistanceTo(R, fit, b, Dim)
            ba == FvDistanceTo(R, b, fit, Dim)
        IN  /\ ab # UnrelatedRanges
            /\ ba # UnrelatedRanges
            /\ ab.distance = -ba.distance
            /\ ab.distance = IncrementsBetween(fit, b)

-----------------------------------------------------------------------------
(* C33 *)

\* The raw markers of two iterators match.
SameMarkers(a, b) ==
    a.begin_ = b.begin_ /\ a.current_ = b.current_ /\ a.end_ = b.end_

RECURSIVE SameIterator(_, _, _)
\* Equality as C33 states it: matching markers, and both not valid or both
\* valid with equal children; at the leaf level matching markers and flag.
SameIterator(a, b, d) ==
    /\ SameMarkers(a, b)
    /\ IF d = 1 THEN a.valid_ = b.valid_
       ELSE \/ ~FvValid(a, d) /\ ~FvValid(b, d)
            \/ FvValid(a, d) /\ FvValid(b, d) /\ SameIterator(a.child_, b.child_, d - 1)

\* C33: the iterator the client holds is equal to another iterator of the
\* view (the first position, the one before it, the one past the last, the
\* iterator before the last step) exactly when their markers match and both
\* are not valid or both are valid with equal children; the child a not
\* valid iterator still holds plays no part.
C33_EqualIsStructural ==
    \A b \in Landmarks \cup (IF lastOp.op \in {"++", "--"} THEN {lastOp.from} ELSE {}) :
        /\ FvEqual(fit, b, Dim) <=> SameIterator(fit, b, Dim)
        /\ ~FvValid(fit, Dim) /\ ~FvValid(b, Dim) /\ SameMarkers(fit, b)
               => FvEqual(fit, b, Dim)

\* An iterator stepped to the end equals end() although it still holds the
\* child it walked the last subrange with.
C33_Witness ==
    /\ lastOp.op = "++"
    /\ FvValid(lastOp.from, Dim)
    /\ FvEqual(fit, FlatEnd(R), Dim)
    /\ fit.child_ # FlatEnd(R).child_

-----------------------------------------------------------------------------
(* C34 *)

\* C34: for the iterator the client holds and every n whose target index
\* lies within [-1, bound], the random access += n leaves the same index and
\* the same raw position as |n| single steps, the way of advancing over
\* ranges without random access.
C34_AdvanceRefinesSteps ==
    cursor.kind = "iter" /\ RawWithinStorage(cursor.base, cursor.it) =>
        \A n \in -(MaxBound + 1)..(MaxBound + 1) :
            LET it == cursor.it
                target == ToDiff(it.index_) + n
                jumped == BvAdvance(bv, it, n)
                stepped == BvAdvanceBySteps(bv, it, n)
            IN  target >= -1 /\ target <= ApparentBound(bv, it) =>
                    /\ jumped # OutOfBounds
                    /\ ~stepped.threw
                    /\ jumped.index_ = stepped.it.index_
                    /\ jumped.current_ = stepped.it.current_

-----------------------------------------------------------------------------
(* C35 *)

\* C35: a ++, --, += n or -= n that raises OutOfBounds leaves the index and
\* the raw position of the iterator as they were, over ranges with random
\* access (advance by index arithmetic) and without (advance by single
\* steps).
C35_FailedMoveChangesNothing ==
    [][/\ (lastOp'.op \in {"++", "--", "+=", "-="} /\ lastOp'.threw =>
              /\ cursor'.it.index_ = cursor.it.index_
              /\ cursor'.it.current_ = cursor.it.current_)
       /\ (cursor.kind = "iter" /\ RawWithinStorage(cursor.base, cursor.it) =>
              \A n \in -(MaxBound + 1)..(MaxBound + 1) :
                  LET stepped == BvAdvanceBySteps(bv, cursor.it, n)
                  IN  stepped.threw =>
                          /\ stepped.it.index_ = cursor.it.index_
                          /\ stepped.it.current_ = cursor.it.current_)
      ]_vars

-----------------------------------------------------------------------------
(* C36 *)

\* C36: size() of a BoxedView is its outermost apparent bound, the number of
\* positions from begin() to end(), and empty() holds exactly when that bound
\* is 0, whatever the physical length of the underlying range.
C36_SizeIsApparentBound ==
    lastOp.op = "size" =>
        /\ lastOp.res = bv.bounds_[1]
        /\ lastOp.res = BvDistanceTo(BoxedBegin(bv), BoxedEnd(bv))
        /\ lastOp.empty <=> bv.bounds_[1] = 0

\* C37: when makeBoxedView is called with a scalar classifier, the depth of
\* the view, its natural bounds and the required length of an explicit list
\* of bounds are those of the dimensionality computed under the classifier:
\* a list of that length is accepted and becomes the bounds of the view, a
\* list of another length raises BoundsMismatch, and no list gives the view
\* the bounds computed under the classifier.
C37_ClassifierDecidesDepth ==
    (lastOp.op = "makeBoxedView" /\ Decayed(lastOp.trait)) =>
        LET h == Dim - Len(lastOp.arg) - 1
            reduced == DimensionalityRange(lastOp.trait, h)
            natural == boundsRangeWith(lastOp.trait, At(R, lastOp.arg), h)
        IN  IF lastOp.bounds = <<>>
            THEN IF natural = ShapeMismatch THEN lastOp.res = ShapeMismatch
                 ELSE /\ lastOp.res \notin {IllFormed, BoundsMismatch, ShapeMismatch}
                      /\ lastOp.res.dimensionality_ = reduced
                      /\ lastOp.res.bounds_ = natural.bounds
            ELSE IF Len(lastOp.bounds) = reduced
            THEN /\ lastOp.res \notin {IllFormed, BoundsMismatch, ShapeMismatch}
                 /\ lastOp.res.dimensionality_ = reduced
                 /\ lastOp.res.bounds_ = lastOp.bounds
            ELSE lastOp.res = BoundsMismatch

RECURSIVE ReadsInside(_, _, _)
\* The iterator `it` of dimensionality d stands on an element of x: its raw
\* position lies in [begin_, end_), and its child, if it has one, is an
\* iterator over the subrange at that position and stands on an element of
\* it in turn.
ReadsInside(x, it, d) ==
    /\ it.current_.c = it.begin_.c
    /\ it.current_.c = it.end_.c
    /\ it.begin_.i <= it.current_.i
    /\ it.current_.i < it.end_.i
    /\ d > 1 =>
           /\ it.child_.begin_ = RawBeginOf(x, it.current_)
           /\ it.child_.end_ = RawEndOf(x, it.current_)
           /\ ReadsInside(x, it.child_, d - 1)

\* C38: wherever ++, --, += and -= have taken the iterator, a dereference
\* that does not throw reads a scalar of the range: at every level the raw
\* position is short of the raw end of its subrange, and every child iterates
\* over the subrange at the raw position of its parent.
C38_DereferenceStaysInside ==
    FvDereference(fit, Dim) # OutOfBounds =>
        /\ fit.begin_ = [c |-> <<>>, i |-> 0]
        /\ fit.end_ = [c |-> <<>>, i |-> Len(R)]
        /\ ReadsInside(R, fit, Dim)
        /\ \E k \in 1..Len(Leaves(R)) : Leaves(R)[k] = FvDereference(fit, Dim)

\* A dereference that returned the last scalar of a range of several, where
\* the subrange before the one that holds it is empty.
C38_Witness ==
    /\ lastOp.op = "deref"
    /\ lastOp.res # OutOfBounds
    /\ fit.current_.i > 0
    /\ R[fit.current_.i] = <<>>
    /\ pos = Len(Leaves(R)) - 1
    /\ Len(Leaves(R)) > 1

\* A call of ++, -- or distance_to is running.
LoopRunning == phase # "idle" \/ origin # "none"

\* C39: every call of increment(), decrement() and distance_to() on an
\* iterator over a finite nested range comes to its end, by returning or by
\* throwing, wherever the iterator stands and however many empty subranges
\* lie in its way.
C39_EveryCallEnds == LoopRunning ~> ~LoopRunning

\* A ++ called in the before-first position has ended past the last, across
\* a range of three or more subranges that hold no scalar.
C39_Witness ==
    /\ ~LoopRunning
    /\ lastOp.op = "++"
    /\ BeforeTheFirst(lastOp.from, bv.d)
    /\ PastTheEnd(fit, bv.d)
    /\ fit.begin_ # fit.end_
    /\ bv.d = Dim
    /\ Len(R) >= 3

====
